---- MODULE Spec2Model ----
(***************************************************************************)
(* Model of the khi (Kobo highlights exporter) backend.                    *)
(*                                                                         *)
(*   - settings/mod.rs : SettingsManager (with_path, load_with_fallback,   *)
(*                       save with its five protection layers, setters)    *)
(*   - covers/mod.rs   : CoverExtractor (extract_cover, cache, placeholder)*)
(*                                                                         *)
(* The file system is part of the state.  Every std::fs call is one step   *)
(* with its Ok outcome and its Err outcome; fs::copy onto an existing file *)
(* is two steps (open-with-truncate, then the copy of the bytes).          *)
(***************************************************************************)
EXTENDS Integers, Sequences, FiniteSets, TLC

----------------------------------------------------------------------------
(* Bounds of the model                                                     *)

\* number of save calls (direct or through a setter) the caller starts in a run
MaxSaves == 1
\* the same for two callers that do not serialize their calls
MaxConcSaves == 2
\* number of calls into the file system or the serializer that fail in a run
\* for a cause outside the program (a read of a missing or non-UTF-8 file and
\* a rename of a missing file fail on their own and are not counted)
MaxFaults == 5
\* the same for two callers that do not serialize their calls
MaxConcFaults == 1
\* number of extract_cover calls the caller starts in a run
MaxCoverCalls == 2
\* number of failing calls into the file system while covers are extracted
MaxCoverFaults == 1
\* number of times a book file is replaced in a run
MaxModifies == 1
\* the modification times of the book files, in whole seconds
MaxSeconds == 1
\* number of rows of the content table of the device database
MaxContentRows == 3
\* number of failing calls into the database while the books are extracted
MaxDbFaults == 1
\* turns of the monitoring loop, and failures of a scan or of an emit
MaxPolls == 3
MaxMonitorFaults == 1
\* books of one import, and failures of its calls
MaxImportBooks == 2
MaxImportFaults == 1

----------------------------------------------------------------------------
(* AppSettings and its JSON document                                       *)

\* the two manager handles callers hold (each Tauri command builds its own)
Procs == {1, 2}

\* env!("CARGO_PKG_VERSION"), and the tag of a document of an older build
PkgVersion == "0.1.0"
OldVersion == "0.0.9"
Versions == {PkgVersion, OldVersion}

ExportConfigs == {"export.default", "export.custom"}
UiPrefs == {"ui.default", "ui.custom"}
ImportRecords == {"import.rec"}
\* Option::None of last_import
None == "None"

AppSettings ==
    [export_config : ExportConfigs, ui_preferences : UiPrefs,
     last_import : ImportRecords \cup {None}, version : Versions]

\* impl Default for AppSettings
DefaultSettings ==
    [export_config |-> "export.default", ui_preferences |-> "ui.default",
     last_import |-> None, version |-> PkgVersion]

\* a key that the JSON object does not have
Missing == "<missing>"
\* the JSON literal null
JsonNull == "null"

\* a serializer that writes null for every last_import
Serialize_DropsLastImport(s) ==
    [exportConfig |-> s.export_config, export_config |-> Missing,
     uiPreferences |-> s.ui_preferences, ui_preferences |-> Missing,
     lastImport |-> JsonNull, last_import |-> Missing,
     version |-> s.version]

\* serde_json::to_string_pretty(&AppSettings): camelCase keys, None as null
Serialize(s) ==
    [exportConfig |-> s.export_config, export_config |-> Missing,
     uiPreferences |-> s.ui_preferences, ui_preferences |-> Missing,
     lastImport |-> IF s.last_import = None THEN JsonNull ELSE s.last_import,
     last_import |-> Missing,
     version |-> s.version]

\* one struct field read by serde: the camelCase key or its alias, not both
Field(primary, alias) ==
    IF primary # Missing /\ alias # Missing THEN "<duplicate>"
    ELSE IF primary # Missing THEN primary
    ELSE alias

\* serde_json::from_str::<AppSettings>(json text)
FromStr(obj) ==
    LET ec == Field(obj.exportConfig, obj.export_config)
        ui == Field(obj.uiPreferences, obj.ui_preferences)
        li == Field(obj.lastImport, obj.last_import)
        ok == /\ ec \in ExportConfigs
              /\ ui \in UiPrefs
              /\ li \in ImportRecords \cup {JsonNull, Missing}
              /\ obj.version \in Versions
    IN  [ok |-> ok,
         settings |->
            IF ok
            THEN [export_config |-> ec, ui_preferences |-> ui,
                  last_import |-> IF li \in ImportRecords THEN li ELSE None,
                  version |-> obj.version]
            ELSE DefaultSettings]

----------------------------------------------------------------------------
(* Files                                                                   *)

NoJson ==
    [exportConfig |-> Missing, export_config |-> Missing,
     uiPreferences |-> Missing, ui_preferences |-> Missing,
     lastImport |-> Missing, last_import |-> Missing, version |-> Missing]

\* no file at the path
Absent == [kind |-> "absent", json |-> NoJson]
\* a file of zero bytes: what an open-with-truncate leaves until bytes arrive
Empty == [kind |-> "empty", json |-> NoJson]
\* text that is no JSON ("not valid json")
Garbage == [kind |-> "text", json |-> NoJson]
\* bytes that are no UTF-8
RawBytes == [kind |-> "bytes", json |-> NoJson]
\* a complete JSON document
JsonFile(obj) == [kind |-> "json", json |-> obj]

Exists(f) == f.kind # "absent"

\* a document as an older build wrote it: snake_case keys, old version tag
LegacyDoc ==
    [exportConfig |-> Missing, export_config |-> "export.custom",
     uiPreferences |-> Missing, ui_preferences |-> "ui.default",
     lastImport |-> Missing, last_import |-> "import.rec",
     version |-> OldVersion]

\* the frontend payload of test_frontend_payload_deserialization: no lastImport
FrontendDoc ==
    [exportConfig |-> "export.default", export_config |-> Missing,
     uiPreferences |-> "ui.custom", ui_preferences |-> Missing,
     lastImport |-> Missing, last_import |-> Missing,
     version |-> PkgVersion]

\* a JSON object without the version key
NoVersionDoc ==
    [exportConfig |-> "export.default", export_config |-> Missing,
     uiPreferences |-> "ui.default", ui_preferences |-> Missing,
     lastImport |-> JsonNull, last_import |-> Missing,
     version |-> Missing]

\* what can lie at the settings path when the program starts
InitialFiles ==
    {Absent, Garbage, RawBytes, JsonFile(LegacyDoc), JsonFile(FrontendDoc),
     JsonFile(NoVersionDoc)}

\* fs::read_to_string: Err for a missing file and for non-UTF-8 content
ReadToStringOk(f) == Exists(f) /\ f.kind # "bytes"

\* serde_json::from_str on the text of a file that was read
ParseFile(f) ==
    IF f.kind = "json" THEN FromStr(f.json)
    ELSE [ok |-> FALSE, settings |-> DefaultSettings]


----------------------------------------------------------------------------
(* State                                                                   *)

VARIABLES
    fs,         \* the files: settings.json and its .backup/.tmp/.corrupted siblings
    settings,   \* settings[p]: SettingsManager.settings of handle p, or NoMgr
    pc,         \* pc[p]: where the call of handle p stands
    op,         \* op[p]: the operation handle p runs or ran last
    arg,        \* arg[p]: the argument the caller passed to it, if any
    set0,       \* set0[p]: self.settings as save was entered
    content,    \* content[p]: the text save serialized
    attempt,    \* attempt[p]: the loop variable of save's retry loop
    result,     \* result[p]: what the last finished call returned
    hist,       \* hist[p]: what the call did so far (see NoHist)
    readBack,   \* readBack[p]: the file the call last read from the settings path
    fs0,        \* fs0[p]: the files when the call of p began (kept for a
                \* caller whose calls nothing interleaves with)
    cfgSaved,   \* the settings of the last save that returned Ok, while the
                \* settings path is not written again
    callers,    \* the handles that start calls
    savesLeft,  \* save calls that may still be started
    faultsLeft  \* injected failures that may still happen

VARIABLES
    epubs,      \* the book files: path -> modification time and archive
    cache,      \* the cache directory: file -> its content, or NoFile
    xpc,        \* where the call into the cover extractor stands
    x,          \* the call into the cover extractor in progress or last returned
    prev,       \* the extract_cover call that returned just before it
    callsLeft,  \* extract_cover calls that may still be started
    modsLeft    \* replacements of a book file that may still happen

VARIABLES
    bookmarkTable,  \* the Bookmark table of the device database
    contentTable,   \* its content table
    dpc,            \* where the call of extract_books_with_highlights stands
    rows,           \* the rows of the query that the loop has not read yet
    books_map,      \* books_map: volume_id -> Book
    books           \* what the call returned: Ok(books) or Err

VARIABLES
    mounted,        \* what lies under /Volumes: a Kobo device, or none
    last_device,    \* last_device of the monitoring thread
    scan,           \* what the last scan_for_kobo of the thread returned
    emitted,        \* the calls of app_handle.emit, in order
    pollsLeft       \* turns of the monitoring loop still to run

VARIABLES
    koboDb,         \* KoboReader.sqlite of the device: the volume ids of the
                    \* books an extraction returns, None when there is no file
    deviceFiles,    \* the book files of the device: path -> archive, or None
    ipc,            \* where the call of import_highlights stands
    ibooks,         \* books of import_highlights
    inext,          \* the place of the loop over books
    lookups,        \* what the cover lookup of each book came to
    iresult         \* what import_highlights returned

settingsVars ==
    <<fs, settings, pc, op, arg, set0, content, attempt, result, hist, readBack, fs0,
      cfgSaved, callers, savesLeft>>
coverVars == <<epubs, cache, xpc, x, prev, callsLeft, modsLeft>>
dbVars == <<bookmarkTable, contentTable, dpc, rows, books_map, books>>
monitorVars == <<mounted, last_device, scan, emitted, pollsLeft>>
importVars == <<koboDb, deviceFiles, ipc, ibooks, inext, lookups, iresult>>
appVars == <<monitorVars, importVars>>
vars == <<settingsVars, coverVars, dbVars, appVars, faultsLeft>>

\* no manager was constructed (with_path returned Err, or was never called)
NoMgr ==
    [export_config |-> "-", ui_preferences |-> "-", last_import |-> "-",
     version |-> "-"]

\* the retry loop: for attempt in 1..=3
MaxAttempts == 3
\* Duration::from_millis(100 * attempt)
BackoffMs == 100

\* the record of a call: the outcome of the backup copy, the number of
\* fs::write calls on the temp file, whether the current attempt wrote and
\* renamed, the sleeps in milliseconds, and the outcome of the restoration
NoHist ==
    [backup |-> "none", writes |-> 0, wrote |-> FALSE, renamed |-> FALSE,
     sleeps |-> << >>, restore |-> "none"]

InitFs(files) ==
    \E f \in files :
        fs = [cfg |-> f, backup |-> Absent, tmp |-> Absent, corrupted |-> Absent]

InitCommon ==
    /\ settings = [p \in Procs |-> NoMgr]
    /\ pc = [p \in Procs |-> "idle"]
    /\ op = [p \in Procs |-> "none"]
    /\ arg = [p \in Procs |-> "-"]
    /\ set0 = [p \in Procs |-> NoMgr]
    /\ content = [p \in Procs |-> NoJson]
    /\ attempt = [p \in Procs |-> 0]
    /\ result = [p \in Procs |-> "none"]
    /\ hist = [p \in Procs |-> NoHist]
    /\ readBack = [p \in Procs |-> Absent]
    /\ fs0 = [p \in Procs |-> fs]
    /\ cfgSaved = NoMgr

CanStart(p) == p \in callers /\ pc[p] = "idle"

\* what every call does to the bookkeeping when it begins
Begin(p, name, a) ==
    /\ op' = [op EXCEPT ![p] = name]
    /\ arg' = [arg EXCEPT ![p] = a]
    /\ hist' = [hist EXCEPT ![p] = NoHist]
    /\ fs0' = IF callers = {p} THEN [fs0 EXCEPT ![p] = fs] ELSE fs0
    /\ readBack' = [readBack EXCEPT ![p] = Absent]

\* a call fails for a cause outside the program / no call does
Fault == faultsLeft > 0 /\ faultsLeft' = faultsLeft - 1
NoFault == faultsLeft' = faultsLeft

Return(p, r) ==
    /\ result' = [result EXCEPT ![p] = r]
    /\ pc' = [pc EXCEPT ![p] = "idle"]

----------------------------------------------------------------------------
(* SettingsManager::with_path and load_with_fallback                       *)

\* with_path: config_path.exists() decides between the file and the defaults
WithPath(p) ==
    /\ CanStart(p)
    /\ Begin(p, "with_path", "-")
    /\ set0' = [set0 EXCEPT ![p] = NoMgr]
    /\ IF Exists(fs.cfg)
       THEN /\ pc' = [pc EXCEPT ![p] = "load_read"]
            /\ result' = [result EXCEPT ![p] = "none"]
            /\ settings' = [settings EXCEPT ![p] = NoMgr]
       ELSE /\ settings' = [settings EXCEPT ![p] = DefaultSettings]
            /\ Return(p, "Ok")
    /\ UNCHANGED <<fs, content, attempt, cfgSaved, callers, coverVars, dbVars, appVars, savesLeft,
                   faultsLeft>>

\* load_with_fallback: read_to_string(path)?, then serde_json::from_str
LoadWithFallback(p) ==
    /\ pc[p] = "load_read"
    /\ \/ \* the read fails (I/O error, or the bytes are no UTF-8): Err
          /\ IF ReadToStringOk(fs.cfg) THEN Fault ELSE NoFault
          /\ Return(p, "IoError")
          /\ UNCHANGED <<settings, readBack>>
       \/ /\ ReadToStringOk(fs.cfg)
          /\ NoFault
          /\ readBack' = [readBack EXCEPT ![p] = fs.cfg]
          /\ IF ParseFile(fs.cfg).ok
             THEN /\ settings' =
                        [settings EXCEPT ![p] = ParseFile(fs.cfg).settings]
                  /\ Return(p, "Ok")
             ELSE /\ pc' = [pc EXCEPT ![p] = "load_copy"]
                  /\ UNCHANGED <<settings, result>>
    /\ UNCHANGED <<fs, op, arg, set0, content, attempt, hist, fs0, cfgSaved, callers, coverVars, dbVars, appVars,
                   savesLeft>>

\* the Err(e) arm: let _ = fs::copy(path, "settings.json.corrupted"); defaults
LoadCopyCorrupted(p) ==
    /\ pc[p] = "load_copy"
    /\ \/ /\ Exists(fs.cfg)
          /\ NoFault
          /\ fs' = [fs EXCEPT !.corrupted = fs.cfg]
       \/ \* the copy fails; the error is dropped
          /\ IF Exists(fs.cfg) THEN Fault ELSE NoFault
          /\ UNCHANGED fs
    /\ settings' = [settings EXCEPT ![p] = DefaultSettings]
    /\ Return(p, "Ok")
    /\ UNCHANGED <<op, arg, set0, content, attempt, hist, readBack, fs0, cfgSaved,
                   callers, coverVars, dbVars, appVars, savesLeft>>

----------------------------------------------------------------------------
(* The callers of save                                                     *)

SaveOps ==
    {"save", "set_export_config", "set_ui_preferences", "set_last_import",
     "reset_to_defaults"}

EnterSave(p, name, a, s) ==
    /\ CanStart(p)
    /\ settings[p] # NoMgr
    /\ savesLeft > 0
    /\ savesLeft' = savesLeft - 1
    /\ Begin(p, name, a)
    /\ settings' = [settings EXCEPT ![p] = s]
    /\ set0' = [set0 EXCEPT ![p] = s]
    /\ pc' = [pc EXCEPT ![p] = "save_serialize"]
    /\ result' = [result EXCEPT ![p] = "none"]
    /\ UNCHANGED <<fs, content, attempt, cfgSaved, callers, coverVars, dbVars, appVars, faultsLeft>>

\* pub fn save, called on the manager as it is
Save(p) == EnterSave(p, "save", "-", settings[p])

\* self.settings.export_config = config
AssignExportConfig(s, config) == [s EXCEPT !.export_config = config]
\* self.settings.ui_preferences = prefs
AssignUiPreferences(s, prefs) == [s EXCEPT !.ui_preferences = prefs]
\* self.settings.last_import = Some(record)
AssignLastImport(s, record) == [s EXCEPT !.last_import = record]

SetExportConfig(p, config) ==
    EnterSave(p, "set_export_config", config,
              AssignExportConfig(settings[p], config))

SetUiPreferences(p, prefs) ==
    EnterSave(p, "set_ui_preferences", prefs,
              AssignUiPreferences(settings[p], prefs))

SetLastImport(p, record) ==
    EnterSave(p, "set_last_import", record,
              AssignLastImport(settings[p], record))

ResetToDefaults(p) == EnterSave(p, "reset_to_defaults", "-", DefaultSettings)

----------------------------------------------------------------------------
(* SettingsManager::save                                                   *)

\* a save that writes the temp file before it validated the text
SavePrevalidate_WritesTemp(p) ==
    /\ pc[p] = "save_serialize"
    /\ fs' = [fs EXCEPT !.tmp = JsonFile(Serialize(settings[p]))]
    /\ \/ /\ Fault
          /\ Return(p, "SerializeError")
          /\ UNCHANGED content
       \/ /\ NoFault
          /\ content' = [content EXCEPT ![p] = Serialize(settings[p])]
          /\ pc' = [pc EXCEPT ![p] = "save_backup"]
          /\ UNCHANGED result
    /\ UNCHANGED <<settings, op, arg, set0, attempt, hist, readBack, fs0,
                   cfgSaved, callers, coverVars, dbVars, appVars, savesLeft>>

\* layer 1: to_string_pretty, then from_str of the text; no file is touched
SavePrevalidate(p) ==
    /\ pc[p] = "save_serialize"
    /\ \/ \* to_string_pretty returns Err
          /\ Fault
          /\ Return(p, "SerializeError")
          /\ UNCHANGED content
       \/ LET text == Serialize(settings[p])
          IN  /\ NoFault
              /\ IF FromStr(text).ok
                 THEN /\ content' = [content EXCEPT ![p] = text]
                      /\ pc' = [pc EXCEPT ![p] = "save_backup"]
                      /\ UNCHANGED result
                 ELSE /\ Return(p, "SerializeError")
                      /\ UNCHANGED content
    /\ UNCHANGED <<fs, settings, op, arg, set0, attempt, hist, readBack, fs0, cfgSaved,
                   callers, coverVars, dbVars, appVars, savesLeft>>

\* layer 2: if config_path.exists() { fs::copy(config_path, backup_path) },
\* a failure is logged; then the loop starts with attempt = 1
SaveBackup(p) ==
    /\ pc[p] = "save_backup"
    /\ IF Exists(fs.cfg)
       THEN \/ /\ NoFault
               /\ fs' = [fs EXCEPT !.backup = fs.cfg]
               /\ hist' = [hist EXCEPT ![p].backup = "ok"]
            \/ /\ Fault
               /\ UNCHANGED fs
               /\ hist' = [hist EXCEPT ![p].backup = "err"]
       ELSE /\ NoFault
            /\ UNCHANGED fs
            /\ hist' = [hist EXCEPT ![p].backup = "skipped"]
    /\ attempt' = [attempt EXCEPT ![p] = 1]
    /\ pc' = [pc EXCEPT ![p] = "save_write"]
    /\ UNCHANGED <<settings, op, arg, set0, content, result, readBack, fs0, cfgSaved,
                   callers, coverVars, dbVars, appVars, savesLeft>>

\* a retry that sleeps 100 ms whatever the attempt number
FailAttempt_FlatBackoff(p, h) ==
    IF attempt[p] < MaxAttempts
    THEN /\ hist' = [hist EXCEPT ![p] =
                [h EXCEPT !.sleeps = Append(@, BackoffMs),
                          !.wrote = FALSE, !.renamed = FALSE]]
         /\ attempt' = [attempt EXCEPT ![p] = attempt[p] + 1]
         /\ pc' = [pc EXCEPT ![p] = "save_write"]
    ELSE /\ hist' = [hist EXCEPT ![p] = h]
         /\ pc' = [pc EXCEPT ![p] = "save_restore"]
         /\ UNCHANGED attempt

\* a failed attempt: if attempt < 3 { sleep(100 * attempt); next attempt },
\* else leave the loop
FailAttempt(p, h) ==
    IF attempt[p] < MaxAttempts
    THEN /\ hist' = [hist EXCEPT ![p] =
                [h EXCEPT !.sleeps = Append(@, BackoffMs * attempt[p]),
                          !.wrote = FALSE, !.renamed = FALSE]]
         /\ attempt' = [attempt EXCEPT ![p] = attempt[p] + 1]
         /\ pc' = [pc EXCEPT ![p] = "save_write"]
    ELSE /\ hist' = [hist EXCEPT ![p] = h]
         /\ pc' = [pc EXCEPT ![p] = "save_restore"]
         /\ UNCHANGED attempt

\* layer 3: fs::write(temp_path, content)
SaveWriteTemp(p) ==
    /\ pc[p] = "save_write"
    /\ \/ /\ NoFault
          /\ fs' = [fs EXCEPT !.tmp = JsonFile(content[p])]
          /\ hist' = [hist EXCEPT ![p].writes = @ + 1, ![p].wrote = TRUE]
          /\ pc' = [pc EXCEPT ![p] = "save_rename"]
          /\ UNCHANGED attempt
       \/ /\ Fault
          /\ UNCHANGED fs
          /\ FailAttempt(p, [hist[p] EXCEPT !.writes = @ + 1])
    /\ UNCHANGED <<settings, op, arg, set0, content, result, readBack, fs0, cfgSaved,
                   callers, coverVars, dbVars, appVars, savesLeft>>

\* layer 3: fs::rename(temp_path, config_path)
SaveRename(p) ==
    /\ pc[p] = "save_rename"
    /\ \/ /\ Exists(fs.tmp)
          /\ NoFault
          /\ fs' = [fs EXCEPT !.cfg = fs.tmp, !.tmp = Absent]
          /\ cfgSaved' = NoMgr
          /\ hist' = [hist EXCEPT ![p].renamed = TRUE]
          /\ pc' = [pc EXCEPT ![p] = "save_verify"]
          /\ UNCHANGED attempt
       \/ \* the rename fails (I/O error, or the temp file is gone)
          /\ IF Exists(fs.tmp) THEN Fault ELSE NoFault
          /\ UNCHANGED <<fs, cfgSaved>>
          /\ FailAttempt(p, hist[p])
    /\ UNCHANGED <<settings, op, arg, set0, content, result, readBack, fs0, callers, coverVars, dbVars, appVars,
                   savesLeft>>

\* a verification that accepts any document that parses
VersionVerified_IgnoresVersion(parsed, s) == parsed.ok

\* verified_settings.version == self.settings.version
VersionVerified(parsed, s) == parsed.ok /\ parsed.settings.version = s.version

\* layer 4: load_from_file(config_path) and the comparison of the version tags
SaveVerify(p) ==
    /\ pc[p] = "save_verify"
    /\ \/ \* the read fails
          /\ IF ReadToStringOk(fs.cfg) THEN Fault ELSE NoFault
          /\ readBack' = [readBack EXCEPT ![p] = Absent]
          /\ FailAttempt(p, hist[p])
          /\ UNCHANGED <<result, cfgSaved>>
       \/ /\ ReadToStringOk(fs.cfg)
          /\ NoFault
          /\ readBack' = [readBack EXCEPT ![p] = fs.cfg]
          /\ IF VersionVerified(ParseFile(fs.cfg), settings[p])
             THEN /\ Return(p, "Ok")
                  /\ cfgSaved' = settings[p]
                  /\ UNCHANGED <<attempt, hist>>
             ELSE /\ FailAttempt(p, hist[p])
                  /\ UNCHANGED <<result, cfgSaved>>
    /\ UNCHANGED <<fs, settings, op, arg, set0, content, fs0, callers, coverVars, dbVars, appVars, savesLeft>>

\* a failure path that returns the error without looking for the backup
SaveRestore_Skips(p) ==
    /\ pc[p] = "save_restore"
    /\ NoFault
    /\ hist' = [hist EXCEPT ![p].restore = "no_backup"]
    /\ Return(p, "IoError")
    /\ UNCHANGED <<fs, cfgSaved, settings, op, arg, set0, content, attempt,
                   readBack, fs0, callers, coverVars, dbVars, appVars, savesLeft>>

\* a failure path that also puts the manager back to the defaults
SaveRestore_ResetsSettings(p) ==
    /\ pc[p] = "save_restore"
    /\ NoFault
    /\ hist' = [hist EXCEPT ![p].restore = "no_backup"]
    /\ settings' = [settings EXCEPT ![p] = DefaultSettings]
    /\ Return(p, "IoError")
    /\ UNCHANGED <<fs, cfgSaved, op, arg, set0, content, attempt, readBack,
                   fs0, callers, coverVars, dbVars, appVars, savesLeft>>

\* after the loop: if backup_path.exists() { fs::copy(backup_path, config_path) };
\* the copy opens the settings path with truncation before it writes the bytes
SaveRestore(p) ==
    /\ pc[p] = "save_restore"
    /\ IF Exists(fs.backup)
       THEN \/ /\ NoFault
               /\ fs' = [fs EXCEPT !.cfg = Empty]
               /\ cfgSaved' = NoMgr
               /\ hist' = [hist EXCEPT ![p].restore = "copying"]
               /\ pc' = [pc EXCEPT ![p] = "save_restore_copy"]
               /\ UNCHANGED result
            \/ \* the copy fails before it opened the settings path
               /\ Fault
               /\ hist' = [hist EXCEPT ![p].restore = "failed"]
               /\ Return(p, "IoError")
               /\ UNCHANGED <<fs, cfgSaved>>
       ELSE /\ NoFault
            /\ hist' = [hist EXCEPT ![p].restore = "no_backup"]
            /\ Return(p, "IoError")
            /\ UNCHANGED <<fs, cfgSaved>>
    /\ UNCHANGED <<settings, op, arg, set0, content, attempt, readBack, fs0, callers, coverVars, dbVars, appVars,
                   savesLeft>>

\* the bytes of the backup arrive at the settings path, or the copy fails
\* on the way; either way save returns the terminal error
SaveRestoreCopy(p) ==
    /\ pc[p] = "save_restore_copy"
    /\ \/ /\ Exists(fs.backup)
          /\ NoFault
          /\ fs' = [fs EXCEPT !.cfg = fs.backup]
          /\ hist' = [hist EXCEPT ![p].restore = "copied"]
       \/ /\ IF Exists(fs.backup) THEN Fault ELSE NoFault
          /\ UNCHANGED fs
          /\ hist' = [hist EXCEPT ![p].restore = "failed"]
    /\ Return(p, "IoError")
    /\ UNCHANGED <<settings, op, arg, set0, content, attempt, readBack, fs0, cfgSaved,
                   callers, coverVars, dbVars, appVars, savesLeft>>

----------------------------------------------------------------------------
(* EPUB archives as CoverExtractor reads them (covers/mod.rs)              *)

\* the name of a zip entry is the sequence of its '/'-separated components;
\* the empty sequence stands for Option::None where the code has one
NoPath == << >>
ContainerXml == <<"META-INF", "container.xml">>
ContentOpf == <<"OEBPS", "content.opf">>

\* common_paths of fallback_find_cover_path, in the order of the array
CommonPaths ==
    << <<"OEBPS", "cover.jpg">>, <<"OEBPS", "cover.jpeg">>, <<"OEBPS", "cover.png">>,
       <<"OEBPS", "Images", "cover.jpg">>, <<"OEBPS", "images", "cover.jpg">>,
       <<"OPS", "cover.jpg">>, <<"OPS", "cover.jpeg">>, <<"OPS", "images", "cover.jpg">>,
       <<"cover.jpg">>, <<"cover.jpeg">>, <<"cover.png">> >>

\* the last components whose lower-cased form ends with .jpg, .jpeg or .png
ImageFileNames ==
    {"cover.jpg", "cover.jpeg", "cover.png", "Cover.PNG", "front.jpg",
     "art.png", "bookcover.jpeg"}
\* the components whose lower-cased form contains "cover"
CoverWords ==
    {"cover.jpg", "cover.jpeg", "cover.png", "Cover.PNG", "bookcover.jpeg",
     "covers", "cover.xhtml"}

IsImageName(name) == name[Len(name)] \in ImageFileNames
ContainsCover(name) == \E i \in 1..Len(name) : name[i] \in CoverWords

\* a zip entry: its name, its bytes, and for the two XML documents the text
\* as the sequence of its tag openings <<"<", tag>> and attributes
\* <<attr, value>> in document order (the code searches the text for
\* attr="value" substrings and never looks at the tags around them)
Entry(name, bytes) == [name |-> name, bytes |-> bytes, xml |-> << >>]
XmlEntry(name, text) == [name |-> name, bytes |-> "xml", xml |-> text]
Archive(entries) == [zip |-> TRUE, entries |-> entries]
NotAZip == [zip |-> FALSE, entries |-> << >>]
Tag(name) == <<"<", name>>

Container ==
    XmlEntry(ContainerXml, << Tag("rootfile"), <<"full-path", ContentOpf>> >>)
MimetypeEntry == Entry(<<"mimetype">>, "application/epub+zip")

\* create_mock_epub_with_cover
EpubWithCover ==
    Archive(<< MimetypeEntry, Entry(<<"OEBPS", "cover.jpg">>, "jpeg.FFD8FFE0") >>)
\* create_mock_epub_without_cover
EpubWithoutCover == Archive(<< MimetypeEntry >>)
\* create_mock_epub_with_nested_cover
EpubNestedCover ==
    Archive(<< Entry(<<"OEBPS", "ch1", "images", "cover.jpg">>, "00"),
               Entry(<<"OEBPS", "cover.jpg">>, "jpeg.FFD8") >>)
\* a manifest in the newer schema:
\* <item id="ch1" href="ch1.xhtml"/>
\* <item id="img" href="images/front.jpg" properties="cover-image"/>
EpubManifest3 ==
    Archive(<< MimetypeEntry, Container,
               XmlEntry(ContentOpf,
                   << Tag("item"), <<"id", "ch1">>, <<"href", <<"ch1.xhtml">> >>,
                      Tag("item"), <<"id", "img">>,
                      <<"href", <<"images", "front.jpg">> >>,
                      <<"properties", "cover-image">> >>),
               Entry(<<"OEBPS", "ch1.xhtml">>, "xhtml.ch1"),
               Entry(<<"OEBPS", "images", "front.jpg">>, "jpeg.front"),
               Entry(<<"OEBPS", "cover.jpg">>, "jpeg.other") >>)
\* the same manifest with the attributes of the cover item in another order:
\* <item id="ch1" href="ch1.xhtml"/>
\* <item properties="cover-image" id="img" href="images/front.jpg"/>
EpubPropertiesFirst ==
    Archive(<< MimetypeEntry, Container,
               XmlEntry(ContentOpf,
                   << Tag("item"), <<"id", "ch1">>, <<"href", <<"ch1.xhtml">> >>,
                      Tag("item"), <<"properties", "cover-image">>,
                      <<"id", "img">>,
                      <<"href", <<"images", "front.jpg">> >> >>),
               Entry(<<"OEBPS", "ch1.xhtml">>, "xhtml.ch1"),
               Entry(<<"OEBPS", "images", "front.jpg">>, "jpeg.front"),
               Entry(<<"OEBPS", "cover.jpg">>, "jpeg.other") >>)
\* a manifest in the older schema:
\* <meta name="cover" content="cov"/>
\* <item id="ch1" href="ch1.xhtml"/> <item id="cov" href="art.png"/>
EpubManifest2 ==
    Archive(<< MimetypeEntry, Container,
               XmlEntry(ContentOpf,
                   << Tag("meta"), <<"name", "cover">>, <<"content", "cov">>,
                      Tag("item"), <<"id", "ch1">>, <<"href", <<"ch1.xhtml">> >>,
                      Tag("item"), <<"id", "cov">>, <<"href", <<"art.png">> >> >>),
               Entry(<<"OEBPS", "ch1.xhtml">>, "xhtml.ch1"),
               Entry(<<"OEBPS", "art.png">>, "png.art") >>)
\* the older schema with href written before id:
\* <meta name="cover" content="cov"/>
\* <item href="art.png" id="cov"/> <item href="ch1.xhtml" id="ch1"/>
EpubHrefBeforeId ==
    Archive(<< MimetypeEntry, Container,
               XmlEntry(ContentOpf,
                   << Tag("meta"), <<"name", "cover">>, <<"content", "cov">>,
                      Tag("item"), <<"href", <<"art.png">> >>, <<"id", "cov">>,
                      Tag("item"), <<"href", <<"ch1.xhtml">> >>, <<"id", "ch1">> >>),
               Entry(<<"OEBPS", "ch1.xhtml">>, "xhtml.ch1"),
               Entry(<<"OEBPS", "art.png">>, "png.art") >>)
\* a manifest whose cover item names an entry the archive does not hold
EpubDanglingHref ==
    Archive(<< MimetypeEntry, Container,
               XmlEntry(ContentOpf,
                   << Tag("item"), <<"id", "img">>,
                      <<"href", <<"images", "front.jpg">> >>,
                      <<"properties", "cover-image">> >>),
               Entry(<<"OEBPS", "cover.jpg">>, "jpeg.other") >>)
\* no manifest and no conventional path: only the scan finds a cover
EpubScanOnly ==
    Archive(<< Entry(<<"a", "b", "bookcover.jpeg">>, "jpeg.deep"),
               Entry(<<"covers", "front.jpg">>, "jpeg.shallow"),
               Entry(<<"img", "Cover.PNG">>, "png.second") >>)
\* no manifest; a cover.jpg at the root and one three segments deep, at a
\* conventional path
EpubRootAndNested ==
    Archive(<< MimetypeEntry,
               Entry(<<"cover.jpg">>, "jpeg.root"),
               Entry(<<"OEBPS", "images", "cover.jpg">>, "jpeg.nested") >>)
\* no manifest; a cover.jpg at the root and one three segments deep, at no
\* conventional path
EpubRootAndDeep ==
    Archive(<< MimetypeEntry,
               Entry(<<"text", "ch1", "cover.jpg">>, "jpeg.nested"),
               Entry(<<"cover.jpg">>, "jpeg.root") >>)

Archives ==
    {EpubWithCover, EpubWithoutCover, EpubNestedCover, EpubManifest3,
     EpubPropertiesFirst, EpubManifest2, EpubHrefBeforeId, EpubDanglingHref,
     EpubScanOnly, EpubRootAndNested, EpubRootAndDeep, NotAZip}

\* the archives a book file is replaced by while the program runs
NewEditions == {EpubWithCover, EpubWithoutCover}

\* archive.by_name: the index of the entry of that name, 0 when there is none
ByName(a, name) ==
    IF \E i \in 1..Len(a.entries) : a.entries[i].name = name
    THEN CHOOSE i \in 1..Len(a.entries) : a.entries[i].name = name
    ELSE 0

\* an attribute of whatever value
AnyValue == "<any>"
\* the text at token t reads attr="value"
IsAttr(t, attr, value) == t[1] = attr /\ (value = AnyValue \/ t[2] = value)

\* str::find / str::rfind for attr="value": the first index from `from` on,
\* the last index before `before`; 0 when there is none
FindAttr(xml, from, attr, value) ==
    IF \E i \in from..Len(xml) : IsAttr(xml[i], attr, value)
    THEN CHOOSE i \in from..Len(xml) :
             /\ IsAttr(xml[i], attr, value)
             /\ \A j \in from..(i - 1) : ~IsAttr(xml[j], attr, value)
    ELSE 0
RFindAttr(xml, before, attr, value) ==
    IF \E i \in 1..(before - 1) : IsAttr(xml[i], attr, value)
    THEN CHOOSE i \in 1..(before - 1) :
             /\ IsAttr(xml[i], attr, value)
             /\ \A j \in (i + 1)..(before - 1) : ~IsAttr(xml[j], attr, value)
    ELSE 0

\* get_opf_path: the full-path attribute of META-INF/container.xml
GetOpfPath(a) ==
    LET c == ByName(a, ContainerXml) IN
    IF c = 0 THEN NoPath
    ELSE LET xml == a.entries[c].xml
             i == FindAttr(xml, 1, "full-path", AnyValue)
         IN IF i = 0 THEN NoPath ELSE xml[i][2]

\* Path::parent and Path::join on relative paths
Parent(path) == SubSeq(path, 1, Len(path) - 1)
Join(dir, href) == dir \o href

\* parse_opf_for_cover: NoPath stands for its Err results
ParseOpfForCover(a, opf_path) ==
    LET o == ByName(a, opf_path) IN
    IF o = 0 THEN NoPath
    ELSE
    LET xml == a.entries[o].xml
        opf_dir == Parent(opf_path)
        pos3 == FindAttr(xml, 1, "properties", "cover-image")
        href3 == IF pos3 = 0 THEN 0 ELSE RFindAttr(xml, pos3, "href", AnyValue)
        pos2 == FindAttr(xml, 1, "name", "cover")
        cont2 == IF pos2 = 0 THEN 0 ELSE FindAttr(xml, pos2, "content", AnyValue)
        item2 == IF cont2 = 0 THEN 0 ELSE FindAttr(xml, 1, "id", xml[cont2][2])
        href2 == IF item2 = 0 THEN 0 ELSE FindAttr(xml, item2, "href", AnyValue)
    IN  IF href3 # 0 THEN Join(opf_dir, xml[href3][2])
        ELSE IF href2 # 0 THEN Join(opf_dir, xml[href2][2])
        ELSE NoPath

\* a scan that keeps the first image with "cover" in its name, whatever its
\* depth
ScanFrom_FirstSeen(a, i, best) ==
    LET Hit(k) == IsImageName(a.entries[k].name) /\ ContainsCover(a.entries[k].name)
    IN IF best # NoPath \/ ~\E k \in i..Len(a.entries) : Hit(k) THEN best
       ELSE a.entries[CHOOSE k \in i..Len(a.entries) :
                          Hit(k) /\ \A j \in i..(k - 1) : ~Hit(j)].name

\* the scan loop of fallback_find_cover_path from entry i on, `best` being
\* best_match so far: a shallower image with "cover" in its name replaces it
RECURSIVE ScanFrom(_, _, _)
ScanFrom(a, i, best) ==
    IF i > Len(a.entries) THEN best
    ELSE LET name == a.entries[i].name
             hit == IsImageName(name) /\ ContainsCover(name)
             better == hit /\ (best = NoPath \/ Len(name) < Len(best))
         IN ScanFrom(a, i + 1, IF better THEN name ELSE best)

\* fallback_find_cover_path: the first conventional path the archive holds,
\* or else the result of the scan
FallbackFindCoverPath(a) ==
    LET Held(i) == ByName(a, CommonPaths[i]) # 0 IN
    IF \E i \in 1..Len(CommonPaths) : Held(i)
    THEN CommonPaths[CHOOSE i \in 1..Len(CommonPaths) :
                         Held(i) /\ \A j \in 1..(i - 1) : ~Held(j)]
    ELSE ScanFrom(a, 1, NoPath)

FindCoverPath_ConventionalFirst(a) ==
    LET opf_path == GetOpfPath(a)
        cover_href == IF opf_path = NoPath THEN NoPath
                      ELSE ParseOpfForCover(a, opf_path)
    IN IF FallbackFindCoverPath(a) # NoPath THEN FallbackFindCoverPath(a)
       ELSE cover_href

\* find_cover_path: the manifest first, the fallback when it yields nothing
FindCoverPath(a) ==
    LET opf_path == GetOpfPath(a)
        cover_href == IF opf_path = NoPath THEN NoPath
                      ELSE ParseOpfForCover(a, opf_path)
    IN IF cover_href # NoPath THEN cover_href ELSE FallbackFindCoverPath(a)

----------------------------------------------------------------------------
(* CoverExtractor: the archives on disk, the cache directory, the calls    *)

EpubPaths == {"book.epub"}
Seconds == 0..MaxSeconds
\* a modification time: whole seconds since the epoch and the rest of it
Mtimes == [secs : Seconds, frac : {0, 1}]
Later(m, n) == n.secs > m.secs \/ (n.secs = m.secs /\ n.frac > m.frac)

\* compute_cache_key: the first 16 hex digits of SHA-256("{path}:{secs}"),
\* taken to be different for different inputs; the time enters in whole
\* seconds (as_secs)
ComputeCacheKey(epub_path, mtime) == <<epub_path, mtime.secs>>
CacheKeys == EpubPaths \X Seconds

\* the files of the cache directory: {key}.jpg and {key}_placeholder.svg
CachedPath(key) == <<key, ".jpg">>
PlaceholderPath(key) == <<key, "_placeholder.svg">>
CacheFiles == CacheKeys \X {".jpg", "_placeholder.svg"}
\* a subdirectory of the cache directory, which the program never makes
SubDir == <<<<"thumbs", 0>>, "/">>
\* the entries read_dir(cache_dir) can list
CacheEntries == CacheFiles \cup {SubDir}
NoCacheFile == <<<<"none", 0>>, "none">>

\* the content of a cache file
NoFile == "<no file>"
EmptyFile == "<empty>"
\* what lies at an entry that is a directory, with the files in it
Directory == "<dir with files>"
\* path.is_file()
IsFile(bytes) == bytes \notin {NoFile, Directory}
SvgPlaceholder == "svg.Sem Capa"

NoCall ==
    [name |-> "none", epub |-> "none", mtime |-> [secs |-> 0, frac |-> 0],
     key |-> <<"none", 0>>, cover |-> NoPath, data |-> NoFile,
     opened |-> FALSE, wrote |-> FALSE,
     result |-> "none", path |-> NoCacheFile, bytes |-> NoFile]

InitCover ==
    /\ \E a \in [EpubPaths -> Archives] :
           epubs = [e \in EpubPaths |->
                        [mtime |-> [secs |-> 0, frac |-> 0], archive |-> a[e]]]
    /\ \E d \in {NoFile, Directory} :
           cache = [f \in CacheEntries |-> IF f = SubDir THEN d ELSE NoFile]
    /\ xpc = "idle"
    /\ x = NoCall
    /\ prev = NoCall
    /\ callsLeft = MaxCoverCalls
    /\ modsLeft = MaxModifies

\* the cover extractor before any call, for the specifications that do not
\* exercise it
InitCoverIdle ==
    /\ epubs = [e \in EpubPaths |->
                    [mtime |-> [secs |-> 0, frac |-> 0], archive |-> EpubWithCover]]
    /\ cache = [f \in CacheEntries |-> NoFile]
    /\ xpc = "idle"
    /\ x = NoCall
    /\ prev = NoCall
    /\ callsLeft = 0
    /\ modsLeft = 0

XReturn(call, r, path) ==
    /\ x' = [call EXCEPT !.result = r, !.path = path,
                         !.bytes = IF path = NoCacheFile THEN NoFile
                                   ELSE cache'[path]]
    /\ xpc' = "idle"

\* extract_cover up to the cache check: fs::metadata for the key, then
\* cached_path.exists()
ExtractCover(epub_path) ==
    /\ xpc = "idle"
    /\ callsLeft > 0
    /\ callsLeft' = callsLeft - 1
    /\ prev' = x
    /\ UNCHANGED <<settingsVars, dbVars, appVars, epubs, cache, modsLeft>>
    /\ LET mtime == epubs[epub_path].mtime
           key == ComputeCacheKey(epub_path, mtime)
           call == [NoCall EXCEPT !.name = "extract_cover", !.epub = epub_path,
                                  !.mtime = mtime, !.key = key]
       IN \/ /\ Fault
             /\ XReturn(call, "Err", NoCacheFile)
          \/ /\ NoFault
             /\ IF cache[CachedPath(key)] # NoFile
                THEN XReturn(call, "Ok", CachedPath(key))
                ELSE x' = call /\ xpc' = "open"

\* File::open, ZipArchive::new and find_cover_path
ExtractOpen ==
    /\ xpc = "open"
    /\ UNCHANGED <<settingsVars, dbVars, appVars, epubs, cache, prev, callsLeft, modsLeft>>
    /\ LET a == epubs[x.epub].archive IN
       \/ /\ IF a.zip THEN Fault ELSE NoFault
          /\ XReturn(x, "Err", NoCacheFile)
       \/ /\ a.zip
          /\ NoFault
          /\ x' = [x EXCEPT !.opened = TRUE, !.cover = FindCoverPath(a)]
          /\ xpc' = IF FindCoverPath(a) = NoPath THEN "placeholder_create"
                    ELSE "read"

\* archive.by_name(path_in_epub) and read_to_end
ExtractRead ==
    /\ xpc = "read"
    /\ UNCHANGED <<settingsVars, dbVars, appVars, epubs, cache, prev, callsLeft, modsLeft>>
    /\ LET a == epubs[x.epub].archive
           i == ByName(a, x.cover)
       IN \/ /\ IF i # 0 THEN Fault ELSE NoFault
             /\ XReturn(x, "Err", NoCacheFile)
          \/ /\ i # 0
             /\ NoFault
             /\ x' = [x EXCEPT !.data = a.entries[i].bytes]
             /\ xpc' = "create"

\* File::create(path): the file exists and is empty from here on
CreateFile(path, then) ==
    /\ UNCHANGED <<settingsVars, dbVars, appVars, epubs, prev, callsLeft, modsLeft>>
    /\ \/ /\ Fault
          /\ UNCHANGED cache
          /\ XReturn(x, "Err", NoCacheFile)
       \/ /\ NoFault
          /\ cache' = [cache EXCEPT ![path] = EmptyFile]
          /\ x' = [x EXCEPT !.wrote = TRUE]
          /\ xpc' = then

\* write_all(bytes): all of the bytes, or an error with the file left short
WriteAll(path, bytes) ==
    /\ UNCHANGED <<settingsVars, dbVars, appVars, epubs, prev, callsLeft, modsLeft>>
    /\ \/ /\ Fault
          /\ UNCHANGED cache
          /\ XReturn(x, "Err", NoCacheFile)
       \/ /\ NoFault
          /\ cache' = [cache EXCEPT ![path] = bytes]
          /\ XReturn(x, "Ok", path)

\* fs::File::create(&cached_path)
ExtractCreate == xpc = "create" /\ CreateFile(CachedPath(x.key), "write")
\* output.write_all(&cover_data) and Ok(Some(cached_path))
ExtractWrite == xpc = "write" /\ WriteAll(CachedPath(x.key), x.data)
\* generate_placeholder: fs::File::create(&placeholder_path)
PlaceholderCreate ==
    xpc = "placeholder_create"
        /\ CreateFile(PlaceholderPath(x.key), "placeholder_write")
\* generate_placeholder: file.write_all(svg) and Ok(Some(placeholder_path))
PlaceholderWrite ==
    xpc = "placeholder_write" /\ WriteAll(PlaceholderPath(x.key), SvgPlaceholder)

\* a clear_cache that removes the directories it meets as well
ClearCache_RemovesDirs ==
    /\ xpc = "idle"
    /\ UNCHANGED <<settingsVars, dbVars, appVars, epubs, callsLeft, modsLeft, xpc>>
    /\ prev' = NoCall
    /\ NoFault
    /\ cache' = [f \in CacheEntries |-> NoFile]
    /\ x' = [NoCall EXCEPT !.name = "clear_cache", !.result = "Ok",
                           !.wrote = \E f \in CacheEntries : cache[f] # NoFile]

\* clear_cache: remove_file for every entry of read_dir that is a file; an
\* error ends the loop with the files removed so far gone.  In the record of
\* the call, wrote tells whether it removed anything.
ClearCache ==
    /\ xpc = "idle"
    /\ UNCHANGED <<settingsVars, dbVars, appVars, epubs, callsLeft, modsLeft, xpc>>
    /\ prev' = NoCall
    /\ LET files == {f \in CacheEntries : IsFile(cache[f])} IN
       \/ /\ NoFault
          /\ cache' = [f \in CacheEntries |->
                           IF f \in files THEN NoFile ELSE cache[f]]
          /\ x' = [NoCall EXCEPT !.name = "clear_cache", !.result = "Ok",
                                 !.wrote = files # {}]
       \/ /\ Fault
          /\ \E gone \in SUBSET files :
                 /\ gone = {} \/ gone # files
                 /\ cache' = [f \in CacheEntries |->
                                  IF f \in gone THEN NoFile ELSE cache[f]]
                 /\ x' = [NoCall EXCEPT !.name = "clear_cache", !.result = "Err",
                                        !.wrote = gone # {}]

\* the reader's side: a book file is replaced by another, at a later time
ModifyEpub(epub_path) ==
    /\ xpc = "idle"
    /\ modsLeft > 0
    /\ modsLeft' = modsLeft - 1
    /\ \E a \in NewEditions, m \in Mtimes :
           /\ Later(epubs[epub_path].mtime, m)
           /\ epubs' = [epubs EXCEPT ![epub_path] = [mtime |-> m, archive |-> a]]
    /\ UNCHANGED <<settingsVars, dbVars, appVars, cache, xpc, x, prev, callsLeft, faultsLeft>>

----------------------------------------------------------------------------
(* The device database (KoboReader.sqlite): values, texts and rows         *)

\* a nullable column and a Rust Option: NULL and None are the empty set,
\* a value v is {v}
Null == {}
Some(v) == {v}
Value(o) == CHOOSE v \in o : TRUE
\* COALESCE of two; longer ones nest it
Coalesce(a, b) == IF a # Null THEN a ELSE b

\* Content ids and titles are texts cut into pieces, so that a prefix, a
\* suffix and a substring are what they are for the characters: "%" is the
\* only piece that LIKE reads as a wildcard, no text of the model holds "%"
\* or "_", and no piece differs from a pattern's piece by letter case only.
RECURSIVE Like(_, _)
Like(s, pattern) ==
    IF pattern = <<>> THEN s = <<>>
    ELSE IF Head(pattern) = "%"
         THEN Like(s, Tail(pattern)) \/ (s # <<>> /\ Like(Tail(s), pattern))
         ELSE s # <<>> /\ Head(s) = Head(pattern) /\ Like(Tail(s), Tail(pattern))

\* the pieces of the titles in byte order (no piece is the prefix of another),
\* and the order of String::cmp and of SQLite's BINARY collation on them
PieceOrder ==
    <<" files", ".", "/", "011", "A Book", "Either", "Introduction", "My Book",
      "Or", "Text", "Unknown Title", "Using ", "chapter3", "htm", "l", "notes",
      "x">>
Rank(piece) == CHOOSE i \in 1..Len(PieceOrder) : PieceOrder[i] = piece
RECURSIVE Before(_, _)
Before(s, t) ==
    /\ t # <<>>
    /\ \/ s = <<>>
       \/ Rank(Head(s)) < Rank(Head(t))
       \/ Head(s) = Head(t) /\ Before(Tail(s), Tail(t))

\* ContentType: a book, a page of a book, an entry of a table of contents
BookType == 6
PageType == 9
TocType == 899

Vol1 == <<"vol1">>
Vol2 == <<"vol2">>
\* the pages "vol1!ch1" and "vol1!ch10" of the first book, one of the second
Ch1 == <<"vol1", "!ch1">>
Ch10 == <<"vol1", "!ch1", "0">>
Ch1Vol2 == <<"vol2", "!ch1">>
\* the positional suffixes "-N" of the entries of a table of contents
TocSuffixes == {"-1", "-2"}

NoMeta == [ISBN |-> Null, Publisher |-> Null, Language |-> Null, DateLastRead |-> Null]
MetaA ==
    [ISBN |-> Some("978-0000000000"), Publisher |-> Some("Publisher"),
     Language |-> Null, DateLastRead |-> Null]
MetaB ==
    [ISBN |-> Some("978-1111111111"), Publisher |-> Null,
     Language |-> Some("en"), DateLastRead |-> Some("2025-01-24")]

ContentRow(id, type, title, bookTitle, attribution, meta) ==
    [ContentID |-> id, ContentType |-> type, Title |-> title,
     BookTitle |-> bookTitle, Attribution |-> attribution, ISBN |-> meta.ISBN,
     Publisher |-> meta.Publisher, Language |-> meta.Language,
     DateLastRead |-> meta.DateLastRead]

\* the titles a page row carries: a chapter name, file names ("Text/011.xhtml",
\* "chapter3.xhtml", "notes.html", "notes.htm"), and chapter names that hold
\* an extension or a slash ("Using .htm files", "Either/Or")
PageTitles ==
    {<<"Introduction">>,
     <<"Text", "/", "011", ".", "x", "htm", "l">>,
     <<"chapter3", ".", "x", "htm", "l">>,
     <<"notes", ".", "htm", "l">>,
     <<"notes", ".", "htm">>,
     <<"Using ", ".", "htm", " files">>,
     <<"Either", "/", "Or">>}

\* the rows the content table is drawn from. The table declares no key in
\* the fixtures of the tests, so two rows may carry the same ContentID.
ContentRows ==
    {ContentRow(Vol1, BookType, Some(<<"My Book">>), Some(<<"My Book">>),
                Some("Author Name"), m) : m \in {MetaA, MetaB}}
    \cup {ContentRow(Vol1, BookType, Null, Null, Null, NoMeta),
          ContentRow(Vol2, BookType, Some(<<"A Book">>), Some(<<"A Book">>),
                     Some("Other Author"), MetaB)}
    \cup {ContentRow(Ch1, PageType, Some(t),
                     IF t = <<"Introduction">> THEN Some(<<"My Book">>) ELSE Null,
                     Null, NoMeta) : t \in PageTitles}
    \cup {ContentRow(Ch10, PageType, Some(<<"Introduction">>), Null, Null, NoMeta)}
    \cup {ContentRow(Ch1 \o <<"-1">>, TocType, Some(<<"Chapter One">>), Null, Null, NoMeta),
          ContentRow(Ch1 \o <<"-1">>, TocType, Null, Null, Null, NoMeta),
          ContentRow(Ch1 \o <<"-2">>, TocType, Some(<<"Section Two">>), Null, Null, NoMeta),
          ContentRow(Ch10 \o <<"-1">>, TocType, Some(<<"Chapter Ten">>), Null, Null, NoMeta)}

\* the content tables: up to MaxContentRows of these rows
ContentTables == {t \in SUBSET ContentRows : Cardinality(t) <= MaxContentRows}

BookmarkRow(id, item, volume, text, date) ==
    [BookmarkID |-> id, ContentID |-> item, VolumeID |-> volume, Text |-> text,
     DateCreated |-> date]

\* the Bookmark tables: a first bookmark whose text is NULL, empty or not,
\* alone or with a second one on the same page, on another page or in
\* another book. The columns that pass through unchanged (Annotation,
\* StartContainerPath, ChapterProgress) are left out.
BookmarkTables ==
    LET first == {BookmarkRow("hl1", Ch1, Vol1, t, Some("2025-01-25")) :
                      t \in {Null, Some(""), Some("Hello")}}
        second == {BookmarkRow("hl2", Ch1, Vol1, Some("World"), Some("2025-01-24")),
                   BookmarkRow("hl2", Ch10, Vol1, Some("World"), Null),
                   BookmarkRow("hl2", Ch1Vol2, Vol2, Some("World"), Some("2025-01-25"))}
    IN  {{b} : b \in first} \cup {{b, c} : b \in first, c \in second}

----------------------------------------------------------------------------
(* KoboDatabase::extract_books_with_highlights                             *)

\* what a LEFT JOIN pairs a row with: each matching row, or NULLs if none
LeftJoin(matches) == IF matches = {} THEN {Null} ELSE {Some(c) : c \in matches}
Col(c, name) == IF c = Null THEN Null ELSE Value(c)[name]

\* COALESCE(c_book.Title, c_book.BookTitle, c_chapter.BookTitle,
\*          c_chapter.Title, 'Unknown Title') as BookTitle
BookTitle_SentinelOnly(c_book, c_chapter) ==
    Coalesce(Col(c_book, "Title"),
    Coalesce(Col(c_book, "BookTitle"), Some(<<"Unknown Title">>)))
BookTitle(c_book, c_chapter) ==
    Coalesce(Col(c_book, "Title"),
    Coalesce(Col(c_book, "BookTitle"),
    Coalesce(Col(c_chapter, "BookTitle"),
    Coalesce(Col(c_chapter, "Title"), Some(<<"Unknown Title">>)))))

\* COALESCE(c_toc.Title, CASE WHEN c_chapter.Title IS NOT NULL AND ... NOT
\* LIKE ... THEN c_chapter.Title ELSE NULL END) as ChapterTitle
ChapterTitle(c_toc, c_chapter) ==
    LET Title == Col(c_chapter, "Title") IN
    Coalesce(Col(c_toc, "Title"),
             IF /\ Title # Null
                /\ ~Like(Value(Title), <<"%", ".", "x", "htm", "l", "%">>)
                /\ ~Like(Value(Title), <<"%", ".", "htm", "l", "%">>)
                /\ ~Like(Value(Title), <<"%", ".", "htm", "%">>)
                /\ ~Like(Value(Title), <<"%", "/", "%">>)
             THEN Title
             ELSE Null)

\* WHERE b.Text IS NOT NULL AND b.Text != ''
WhereClause_NullOnly(b) == b.Text # Null
WhereClause(b) == b.Text # Null /\ b.Text # Some("")

\* the rows of the query, before ORDER BY. `of` names the rows of the
\* tables a result row was joined from: the result is a bag, and two of its
\* rows may agree in every selected column.
SelectRows(bookmarks, contents) ==
    UNION {UNION {UNION {
        {[BookmarkID |-> b.BookmarkID,
          VolumeID |-> b.VolumeID,
          BookTitle |-> BookTitle(c_book, c_chapter),
          ChapterTitle |-> ChapterTitle(c_toc, c_chapter),
          Attribution |-> Col(c_book, "Attribution"),
          Text |-> b.Text,
          DateCreated |-> b.DateCreated,
          ISBN |-> Col(c_book, "ISBN"),
          Publisher |-> Col(c_book, "Publisher"),
          Language |-> Col(c_book, "Language"),
          DateLastRead |-> Col(c_book, "DateLastRead"),
          of |-> <<c_book, c_chapter, c_toc>>]
         : c_toc \in LeftJoin({c \in contents :
                                   /\ c.ContentType = TocType
                                   /\ Like(c.ContentID, b.ContentID \o <<"%">>)})}
         : c_chapter \in LeftJoin({c \in contents : b.ContentID = c.ContentID})}
         : c_book \in LeftJoin({c \in contents : b.VolumeID = c.ContentID})}
         : b \in {b \in bookmarks : WhereClause(b)}}

\* ORDER BY BookTitle, b.DateCreated: q comes before r (a NULL date first)
RowBefore(q, r) ==
    \/ Before(Value(q.BookTitle), Value(r.BookTitle))
    \/ /\ q.BookTitle = r.BookTitle
       /\ r.DateCreated # Null
       /\ \/ q.DateCreated = Null
          \/ Value(q.DateCreated) = "2025-01-24" /\ Value(r.DateCreated) = "2025-01-25"

\* HashMap::new(), and the call that has not returned
NoBooks == [result |-> "none", list |-> <<>>]

InitDb ==
    /\ bookmarkTable \in BookmarkTables
    /\ contentTable \in ContentTables
    /\ dpc = "idle"
    /\ rows = {}
    /\ books_map = <<>>
    /\ books = NoBooks

\* the database while no extraction is looked at
InitDbIdle ==
    /\ bookmarkTable = {}
    /\ contentTable = {}
    /\ dpc = "idle"
    /\ rows = {}
    /\ books_map = <<>>
    /\ books = NoBooks

\* extract_books_with_highlights up to the loop: the count query only logs,
\* prepare and query_map return the database's error with `?`
ExtractBooksWithHighlights ==
    /\ dpc = "idle"
    /\ books.result = "none"
    /\ \/ /\ NoFault
          /\ rows' = SelectRows(bookmarkTable, contentTable)
          /\ dpc' = "rows"
          /\ UNCHANGED books
       \/ /\ Fault
          /\ books' = [result |-> "Err", list |-> <<>>]
          /\ UNCHANGED <<rows, dpc>>
    /\ books_map' = <<>>
    /\ UNCHANGED <<settingsVars, coverVars, appVars, bookmarkTable, contentTable>>

Fill_LastWins(field, value) == IF value # Null THEN value ELSE field
\* if book.isbn.is_none() && isbn.is_some() { book.isbn = isbn; }
Fill(field, value) == IF field = Null /\ value # Null THEN value ELSE field

\* a loop that starts the query over when a row cannot be read
GroupRow_Retries ==
    /\ dpc = "rows"
    /\ rows # {}
    /\ Fault
    /\ rows' = SelectRows(bookmarkTable, contentTable)
    /\ books_map' = <<>>
    /\ UNCHANGED <<settingsVars, coverVars, appVars, bookmarkTable, contentTable, dpc, books>>

\* `row?` on a row that cannot be read: the error is returned at once, the
\* map and the rows not yet read are dropped
RowFails ==
    /\ dpc = "rows"
    /\ rows # {}
    /\ Fault
    /\ books' = [result |-> "Err", list |-> <<>>]
    /\ books_map' = <<>>
    /\ dpc' = "idle"
    /\ UNCHANGED <<settingsVars, coverVars, appVars, bookmarkTable, contentTable, rows>>

\* one turn of `for row in rows`, on the next row in the order of the query
\* (any of the rows that ORDER BY does not tell apart)
GroupRow ==
    /\ dpc = "rows"
    /\ \E row \in rows :
           /\ \A q \in rows : ~RowBefore(q, row)
           /\ rows' = rows \ {row}
           /\ IF row.Text = Null \/ Value(row.Text) = ""
              THEN UNCHANGED books_map
              ELSE LET volume_id == row.VolumeID
                       book ==
                           IF volume_id \in DOMAIN books_map
                           THEN books_map[volume_id]
                           ELSE [content_id |-> volume_id,
                                 title |-> Value(Coalesce(row.BookTitle,
                                                          Some(<<"Unknown Title">>))),
                                 author |-> Value(Coalesce(row.Attribution,
                                                           Some("Unknown Author"))),
                                 isbn |-> Null, publisher |-> Null,
                                 language |-> Null, date_last_read |-> Null,
                                 highlights |-> <<>>]
                       highlight ==
                           [id |-> row.BookmarkID,
                            text |-> Value(row.Text),
                            chapter_title |-> row.ChapterTitle,
                            date_created |-> Value(Coalesce(row.DateCreated,
                                                            Some("Unknown")))]
                   IN  books_map' =
                           [v \in DOMAIN books_map \cup {volume_id} |->
                               IF v = volume_id
                               THEN [book EXCEPT
                                        !.isbn = Fill(@, row.ISBN),
                                        !.publisher = Fill(@, row.Publisher),
                                        !.language = Fill(@, row.Language),
                                        !.date_last_read = Fill(@, row.DateLastRead),
                                        !.highlights = Append(@, highlight)]
                               ELSE books_map[v]]
    /\ UNCHANGED <<settingsVars, coverVars, appVars, bookmarkTable, contentTable, dpc, books,
                   faultsLeft>>

CollectBooks_Unsorted ==
    /\ dpc = "rows"
    /\ rows = {}
    /\ \E order \in [1..Cardinality(DOMAIN books_map) -> DOMAIN books_map] :
           /\ \A i, j \in DOMAIN order : i # j => order[i] # order[j]
           /\ books' = [result |-> "Ok",
                        list |-> [i \in DOMAIN order |-> books_map[order[i]]]]
    /\ dpc' = "idle"
    /\ UNCHANGED <<settingsVars, coverVars, appVars, bookmarkTable, contentTable, rows, books_map,
                   faultsLeft>>

\* after the loop: the books of the map in any order (into_values), sorted
\* by title with a stable sort, returned as Ok
CollectBooks ==
    /\ dpc = "rows"
    /\ rows = {}
    /\ \E order \in [1..Cardinality(DOMAIN books_map) -> DOMAIN books_map] :
           /\ \A i, j \in DOMAIN order : i # j => order[i] # order[j]
           /\ \A i, j \in DOMAIN order :
                  i < j => ~Before(books_map[order[j]].title, books_map[order[i]].title)
           /\ books' = [result |-> "Ok",
                        list |-> [i \in DOMAIN order |-> books_map[order[i]]]]
    /\ dpc' = "idle"
    /\ UNCHANGED <<settingsVars, coverVars, appVars, bookmarkTable, contentTable, rows, books_map,
                   faultsLeft>>

----------------------------------------------------------------------------
(* DeviceMonitor: the polling loop of start_monitoring                     *)

\* KoboDevice as scan_for_kobo builds it: the path of the volume, the serial
\* number read from .kobo/version (None when there is none) and whether the
\* database on it answered a query
KoboDevice(path, serial_number, is_valid) ==
    [path |-> path, serial_number |-> serial_number, is_valid |-> is_valid]
KoboDevices ==
    {KoboDevice("/Volumes/KOBOeReader", Some("N1"), TRUE),
     KoboDevice("/Volumes/KOBOeReader", Some("N1"), FALSE),
     KoboDevice("/Volumes/KOBOeReader", Some("N2"), TRUE),
     KoboDevice("/Volumes/KOBOeReader", Null, TRUE),
     KoboDevice("/Volumes/KOBOeReader 1", Some("N1"), TRUE)}
\* what lies under /Volumes: no Kobo, or one
Volumes == {Null} \cup {Some(d) : d \in KoboDevices}

InitMonitorIdle ==
    /\ mounted = Null
    /\ last_device = Null
    /\ scan = [ok |-> TRUE, device |-> Null]
    /\ emitted = <<>>
    /\ pollsLeft = 0

\* let last_device = Arc::new(Mutex::new(None)), before the first poll
InitMonitor ==
    /\ mounted \in Volumes
    /\ last_device = Null
    /\ scan = [ok |-> TRUE, device |-> Null]
    /\ emitted = <<>>
    /\ pollsLeft = MaxPolls

\* the user plugs a device in, takes it out, or the device changes between
\* two polls
Mount ==
    /\ pollsLeft > 0
    /\ mounted' \in Volumes \ {mounted}
    /\ UNCHANGED <<settingsVars, coverVars, dbVars, importVars, last_device, scan,
                   emitted, pollsLeft, faultsLeft>>

\* a comparison that looks at the path only
DeviceChanged_PathOnly(last_dev, current_dev) ==
    last_dev.path # current_dev.path

\* last_dev.path != current_dev.path
\*     || last_dev.serial_number != current_dev.serial_number
DeviceChanged(last_dev, current_dev) ==
    \/ last_dev.path # current_dev.path
    \/ last_dev.serial_number # current_dev.serial_number

\* app_handle.emit(event, payload): it succeeds, or it fails and the failure
\* is logged
Emit(event, payload) ==
    \E ok \in BOOLEAN :
        /\ faultsLeft' = IF ok THEN faultsLeft ELSE faultsLeft - 1
        /\ faultsLeft' >= 0
        /\ emitted' = Append(emitted, [event |-> event, device |-> payload,
                                       ok |-> ok])

\* one turn of the loop: sleep 2 s, scan_for_kobo, match (last, current)
Poll ==
    /\ pollsLeft > 0
    /\ pollsLeft' = pollsLeft - 1
    /\ UNCHANGED <<settingsVars, coverVars, dbVars, importVars, mounted>>
    /\ \/ \* Err(e): logged
          /\ Fault
          /\ scan' = [ok |-> FALSE, device |-> Null]
          /\ UNCHANGED <<last_device, emitted>>
       \/ /\ scan' = [ok |-> TRUE, device |-> mounted]
          /\ IF last_device = Null /\ mounted # Null
             THEN /\ Emit("device-detected", mounted)
                  /\ last_device' = mounted
             ELSE IF last_device # Null /\ mounted = Null
             THEN /\ Emit("device-disconnected", Null)
                  /\ last_device' = Null
             ELSE IF /\ last_device # Null /\ mounted # Null
                     /\ DeviceChanged(Value(last_device), Value(mounted))
             THEN /\ Emit("device-detected", mounted)
                  /\ last_device' = mounted
             ELSE /\ NoFault
                  /\ UNCHANGED <<last_device, emitted>>

----------------------------------------------------------------------------
(* import_highlights: the books of the device and their covers             *)

\* "file:///mnt/onboard/", the prefix of the volume id of a side-loaded book
Onboard == "file:///mnt/onboard/"
ImportPaths == {"Books/a.epub", "Books/b.epub"}
\* volume ids, as pieces of text: of side-loaded books and of a bought one
VolumeIds == {<<Onboard, f>> : f \in ImportPaths} \cup {<<"uuid-1">>}
NotOnboard(piece) == piece # Onboard
\* if volume_id.starts_with("file:///mnt/onboard/")
\*     { b.file_path = Some(volume_id.replace("file:///mnt/onboard/", "")) }
FilePath(volume_id) ==
    IF volume_id[1] = Onboard THEN Some(SelectSeq(volume_id, NotOnboard))
    ELSE Null
\* the books extract_books_with_highlights can return: one per volume id
BookLists ==
    {l \in UNION {[1..n -> VolumeIds] : n \in 0..MaxImportBooks} :
        \A i, j \in DOMAIN l : l[i] = l[j] => i = j}
\* what can lie at the path of a book on the device
ImportArchives == {EpubWithCover, EpubWithoutCover, EpubDanglingHref, NotAZip}

InitImportIdle ==
    /\ koboDb = Null
    /\ deviceFiles = [f \in ImportPaths |-> Null]
    /\ ipc = "idle"
    /\ ibooks = <<>>
    /\ inext = 0
    /\ lookups = <<>>
    /\ iresult = "none"

\* a device with or without KoboReader.sqlite, and with the book files
InitImport ==
    /\ koboDb \in {Null} \cup {Some(l) : l \in BookLists}
    /\ deviceFiles \in [ImportPaths -> {Null} \cup {Some(a) : a \in ImportArchives}]
    /\ ipc = "idle"
    /\ ibooks = <<>>
    /\ inext = 0
    /\ lookups = <<>>
    /\ iresult = "none"

ImportReturns(r) ==
    /\ iresult' = r
    /\ ipc' = "idle"

\* import_highlights up to the loop: get_database_path, KoboDatabase::new,
\* extract_books_with_highlights, app_cache_dir, each returning Err on failure
ImportHighlights ==
    /\ ipc = "idle"
    /\ iresult = "none"
    /\ UNCHANGED <<settingsVars, coverVars, dbVars, monitorVars, koboDb, deviceFiles,
                   lookups>>
    /\ IF koboDb = Null
       THEN /\ NoFault
            /\ ImportReturns("Could not find Kobo database")
            /\ UNCHANGED <<ibooks, inext>>
       ELSE \/ /\ Fault
               /\ \E r \in {"Failed to open database", "Failed to extract highlights",
                            "app_cache_dir"} : ImportReturns(r)
               /\ UNCHANGED <<ibooks, inext>>
            \/ /\ NoFault
               /\ ibooks' = [i \in DOMAIN Value(koboDb) |->
                                [content_id |-> Value(koboDb)[i],
                                 file_path |-> FilePath(Value(koboDb)[i]),
                                 cover_path |-> Null]]
               /\ inext' = 1
               /\ ipc' = "covers"
               /\ UNCHANGED iresult

\* what extract_cover returns for a book file when nothing outside the
\* program fails and the cache is empty: Err for a file that is no zip or
\* whose cover entry is missing, the cache file of the cover, or the
\* placeholder
ExtractCoverResult(epub_path, a) ==
    LET key == ComputeCacheKey(epub_path, [secs |-> 0, frac |-> 0]) IN
    IF ~a.zip THEN Null
    ELSE IF FindCoverPath(a) = NoPath THEN Some(PlaceholderPath(key))
    ELSE IF ByName(a, FindCoverPath(a)) = 0 THEN Null
    ELSE Some(CachedPath(key))

\* a loop that gives the import up when a lookup fails
NoCover_Aborts ==
    /\ ImportReturns("cover lookup failed")
    /\ UNCHANGED <<ibooks, inext>>

\* `if let Ok(Some(cover_path))` did not match: the book keeps cover_path
\* None and the loop goes on
NoCover ==
    /\ inext' = inext + 1
    /\ UNCHANGED <<ibooks, ipc, iresult>>

\* one turn of `for book in &mut books`
ImportCover ==
    /\ ipc = "covers"
    /\ inext \in DOMAIN ibooks
    /\ UNCHANGED <<settingsVars, coverVars, dbVars, monitorVars, koboDb, deviceFiles>>
    /\ LET file_path == ibooks[inext].file_path
           file == IF file_path = Null THEN Null
                   ELSE deviceFiles[Value(file_path)[1]]
       IN  IF file = Null
           THEN \* no file_path, or epub_path.exists() is false
                /\ NoFault
                /\ lookups' = Append(lookups, "none")
                /\ inext' = inext + 1
                /\ UNCHANGED <<ibooks, ipc, iresult>>
           ELSE LET r == ExtractCoverResult(Value(file_path)[1], Value(file)) IN
                \/ /\ IF r = Null THEN NoFault ELSE Fault
                   /\ lookups' = Append(lookups, "Err")
                   /\ NoCover
                \/ /\ r # Null
                   /\ NoFault
                   /\ lookups' = Append(lookups, "Ok")
                   /\ ibooks' = [ibooks EXCEPT ![inext].cover_path = r]
                   /\ inext' = inext + 1
                   /\ UNCHANGED <<ipc, iresult>>

\* Ok(books)
ImportDone ==
    /\ ipc = "covers"
    /\ inext \notin DOMAIN ibooks
    /\ NoFault
    /\ ImportReturns("Ok")
    /\ UNCHANGED <<settingsVars, coverVars, dbVars, monitorVars, koboDb, deviceFiles,
                   ibooks, inext, lookups>>

----------------------------------------------------------------------------
(* Specifications                                                          *)

\* one caller, one call at a time
Init ==
    /\ InitFs(InitialFiles)
    /\ InitCommon
    /\ callers = {1}
    /\ savesLeft = MaxSaves
    /\ faultsLeft = MaxFaults
    /\ InitCoverIdle
    /\ InitDbIdle
    /\ InitMonitorIdle
    /\ InitImportIdle

\* two callers whose calls interleave
InitConc ==
    /\ InitFs({Absent, Garbage, JsonFile(LegacyDoc)})
    /\ InitCommon
    /\ callers = Procs
    /\ savesLeft = MaxConcSaves
    /\ faultsLeft = MaxConcFaults
    /\ InitCoverIdle
    /\ InitDbIdle
    /\ InitMonitorIdle
    /\ InitImportIdle

\* the cover extractor on its own, the settings manager never constructed
InitCoverOnly ==
    /\ InitFs({Absent})
    /\ InitCommon
    /\ callers = {}
    /\ savesLeft = 0
    /\ faultsLeft = MaxCoverFaults
    /\ InitCover
    /\ InitDbIdle
    /\ InitMonitorIdle
    /\ InitImportIdle

Next ==
    \E p \in Procs :
        \/ WithPath(p)
        \/ LoadWithFallback(p)
        \/ LoadCopyCorrupted(p)
        \/ Save(p)
        \/ \E config \in ExportConfigs : SetExportConfig(p, config)
        \/ \E prefs \in UiPrefs : SetUiPreferences(p, prefs)
        \/ \E record \in ImportRecords : SetLastImport(p, record)
        \/ ResetToDefaults(p)
        \/ SavePrevalidate(p)
        \/ SaveBackup(p)
        \/ SaveWriteTemp(p)
        \/ SaveRename(p)
        \/ SaveVerify(p)
        \/ SaveRestore(p)
        \/ SaveRestoreCopy(p)

\* the settings manager under one caller that makes one call at a time
Spec == Init /\ [][Next]_vars

\* two callers racing: each constructs its manager, saves it as it is or
\* resets it to the defaults
NextConc ==
    \E p \in Procs :
        \/ WithPath(p)
        \/ LoadWithFallback(p)
        \/ LoadCopyCorrupted(p)
        \/ Save(p)
        \/ ResetToDefaults(p)
        \/ SavePrevalidate(p)
        \/ SaveBackup(p)
        \/ SaveWriteTemp(p)
        \/ SaveRename(p)
        \/ SaveVerify(p)
        \/ SaveRestore(p)
        \/ SaveRestoreCopy(p)

\* the settings manager under two callers that do not serialize their calls
SpecConc == InitConc /\ [][NextConc]_vars

NextCover ==
    \/ \E epub_path \in EpubPaths : ExtractCover(epub_path)
    \/ ExtractOpen
    \/ ExtractRead
    \/ ExtractCreate
    \/ ExtractWrite
    \/ PlaceholderCreate
    \/ PlaceholderWrite
    \/ ClearCache
    \/ \E epub_path \in EpubPaths : ModifyEpub(epub_path)

\* the cover extractor under one caller that makes one call at a time
SpecCover == InitCoverOnly /\ [][NextCover]_vars

InitDbOnly ==
    /\ InitFs({Absent})
    /\ InitCommon
    /\ callers = {}
    /\ savesLeft = 0
    /\ faultsLeft = MaxDbFaults
    /\ InitCoverIdle
    /\ InitDb
    /\ InitMonitorIdle
    /\ InitImportIdle

NextDb ==
    \/ ExtractBooksWithHighlights
    \/ GroupRow
    \/ RowFails
    \/ CollectBooks

\* one extraction from a device database
SpecDb == InitDbOnly /\ [][NextDb]_vars

InitMonitorOnly ==
    /\ InitFs({Absent})
    /\ InitCommon
    /\ callers = {}
    /\ savesLeft = 0
    /\ faultsLeft = MaxMonitorFaults
    /\ InitCoverIdle
    /\ InitDbIdle
    /\ InitImportIdle
    /\ InitMonitor

NextMonitor ==
    \/ Mount
    \/ Poll

\* the monitoring thread and the devices that come and go
SpecMonitor == InitMonitorOnly /\ [][NextMonitor]_vars

InitImportOnly ==
    /\ InitFs({Absent})
    /\ InitCommon
    /\ callers = {}
    /\ savesLeft = 0
    /\ faultsLeft = MaxImportFaults
    /\ InitCoverIdle
    /\ InitDbIdle
    /\ InitMonitorIdle
    /\ InitImport

NextImport ==
    \/ ImportHighlights
    \/ ImportCover
    \/ ImportDone

\* one import_highlights from a device
SpecImport == InitImportOnly /\ [][NextImport]_vars

----------------------------------------------------------------------------
(* The settings manager, property by property                              *)

InSave(p) == op[p] \in SaveOps /\ pc[p] # "idle"
SaveReturned(p) == op[p] \in SaveOps /\ pc[p] = "idle"
LoadReturned(p) == op[p] = "with_path" /\ pc[p] = "idle"

\* C1: after save returned Ok with in-memory settings s, and while nothing
\* wrote the settings path again, a with_path that reads the file yields
\* settings equal to s in every field.
C1_SaveLoadRoundTrip ==
    \A p \in Procs :
        (LoadReturned(p) /\ cfgSaved # NoMgr /\ result[p] = "Ok")
            => settings[p] = cfgSaved

\* a reload after a successful save of settings that are not the defaults
C1_Witness ==
    \E p \in Procs :
        /\ LoadReturned(p) /\ result[p] = "Ok"
        /\ cfgSaved # NoMgr /\ cfgSaved # DefaultSettings
        /\ cfgSaved.last_import # None
        /\ settings[p] = cfgSaved

\* C2: with_path never returns an error, whatever lies at the settings path:
\* it returns Ok with the parsed settings or with the defaults.
C2_LoadNeverFails ==
    \A p \in Procs :
        LoadReturned(p) => (result[p] = "Ok" /\ settings[p] # NoMgr)

\* C3: loading a settings file whose content does not parse returns the
\* default settings and leaves settings.json.corrupted with exactly the bytes
\* of the corrupt file (stated for the runs in which no call into the file
\* system failed for an outside cause: the copy itself is best-effort).
C3_CorruptFilePreserved ==
    \A p \in Procs :
        (/\ LoadReturned(p) /\ faultsLeft = MaxFaults
         /\ Exists(fs0[p].cfg) /\ ~ParseFile(fs0[p].cfg).ok)
            => /\ result[p] = "Ok"
               /\ settings[p] = DefaultSettings
               /\ fs.corrupted = fs0[p].cfg

\* C4: from the beginning of a save to its return, on every path, what a
\* reader finds at the settings path is the complete file of before the save
\* or the complete new document.
C4_OnlyRenameVisible ==
    \A p \in Procs :
        op[p] \in SaveOps
            => fs.cfg \in {fs0[p].cfg, JsonFile(Serialize(set0[p]))}

\* C5 as claimed: a save that returns the error of exhausted attempts has
\* attempted to copy the backup over the settings path.
C5_RestoreAlwaysAttempted ==
    \A p \in Procs :
        (SaveReturned(p) /\ result[p] = "IoError")
            => hist[p].restore \in {"copied", "failed"}

\* C5 as amended: a save that returns the error of exhausted attempts made
\* its three attempts, and it has attempted to copy the .backup sibling over
\* the settings path exactly when that sibling exists; a restoration that
\* completed left the bytes of the backup at the settings path.
C5_RestoreWhenBackupExists ==
    \A p \in Procs :
        (SaveReturned(p) /\ result[p] = "IoError")
            => /\ hist[p].writes = 3
               /\ hist[p].restore \in {"copied", "failed"} <=> Exists(fs.backup)
               /\ hist[p].restore = "copied" => fs.cfg = fs.backup

\* a failed save that put the backup back
C5_Witness ==
    \E p \in Procs :
        /\ SaveReturned(p) /\ result[p] = "IoError"
        /\ hist[p].restore = "copied"
        /\ Exists(fs.backup) /\ fs.cfg = fs.backup

\* C6: save returns Ok only from an attempt that wrote the temp file, renamed
\* it, read the settings path back, parsed what it read and found the version
\* tag of the in-memory settings in it.
C6_OkOnlyIfVerified ==
    \A p \in Procs :
        (SaveReturned(p) /\ result[p] = "Ok")
            => /\ hist[p].wrote /\ hist[p].renamed
               /\ ParseFile(readBack[p]).ok
               /\ ParseFile(readBack[p]).settings.version = settings[p].version

\* a save that returned Ok on its second attempt
C6_Witness ==
    \E p \in Procs :
        /\ SaveReturned(p) /\ result[p] = "Ok"
        /\ Len(hist[p].sleeps) = 1
        /\ hist[p].wrote /\ hist[p].renamed
        /\ readBack[p].json.version = settings[p].version

\* any step of a call that is under way
CallStep(p) ==
    \/ LoadWithFallback(p) \/ LoadCopyCorrupted(p)
    \/ SavePrevalidate(p) \/ SaveBackup(p) \/ SaveWriteTemp(p)
    \/ SaveRename(p) \/ SaveVerify(p) \/ SaveRestore(p) \/ SaveRestoreCopy(p)

\* C7: a save writes the temp file at most 3 times; failed attempt n (1, 2)
\* is followed by a sleep of n x 100 ms whichever step failed, the third by
\* none; no attempt follows the one that verified; a save under way can
\* always take its next step, so it returns.
C7_BoundedRetryBackoff ==
    \A p \in Procs :
        LET h == hist[p] IN
        /\ h.writes <= 3 /\ attempt[p] <= 3
        /\ Len(h.sleeps) <= 2
        /\ \A i \in 1..Len(h.sleeps) : h.sleeps[i] = 100 * i
        /\ pc[p] = "save_write" => Len(h.sleeps) = h.writes /\ h.writes < 3
        /\ pc[p] \in {"save_rename", "save_verify"}
                => Len(h.sleeps) = h.writes - 1
        /\ pc[p] \in {"save_restore", "save_restore_copy"}
                => h.writes = 3 /\ Len(h.sleeps) = 2
        /\ (SaveReturned(p) /\ result[p] = "Ok")
                => h.writes >= 1 /\ Len(h.sleeps) = h.writes - 1
        /\ (SaveReturned(p) /\ result[p] = "IoError")
                => h.writes = 3 /\ Len(h.sleeps) = 2
        /\ pc[p] # "idle" => ENABLED CallStep(p)

\* a save that gave up after its third attempt, having slept 100 and 200 ms
C7_Witness ==
    \E p \in Procs :
        /\ SaveReturned(p) /\ result[p] = "IoError"
        /\ hist[p].writes = 3
        /\ hist[p].sleeps = <<100, 200>>

C9_FailedSaveKeepsMemory ==
    \A p \in Procs :
        /\ op[p] \in SaveOps => settings[p] = set0[p]
        /\ (SaveReturned(p) /\ result[p] \in {"IoError", "SerializeError"})
            => /\ op[p] = "set_export_config"
                    => settings[p].export_config = arg[p]
               /\ op[p] = "set_ui_preferences"
                    => settings[p].ui_preferences = arg[p]
               /\ op[p] = "set_last_import"
                    => settings[p].last_import = arg[p]
               /\ op[p] = "reset_to_defaults"
                    => settings[p] = DefaultSettings

\* set_ui_preferences failed after three attempts; the file on disk still
\* holds the old preferences and the manager holds the new ones
C9_Witness ==
    \E p \in Procs :
        /\ SaveReturned(p) /\ op[p] = "set_ui_preferences"
        /\ result[p] = "IoError"
        /\ arg[p] = "ui.custom" /\ settings[p].ui_preferences = "ui.custom"
        /\ ParseFile(fs.cfg).ok
        /\ ParseFile(fs.cfg).settings.ui_preferences = "ui.default"

----------------------------------------------------------------------------
(* The cover extractor, property by property                               *)

\* the extract_cover call that just returned follows, with nothing between
\* them, an extract_cover call for the same book file at the same
\* modification time, the archive opens as a zip and both returned Ok
SuccessiveCalls ==
    /\ xpc = "idle"
    /\ x.name = "extract_cover" /\ prev.name = "extract_cover"
    /\ x.epub = prev.epub /\ x.mtime = prev.mtime
    /\ epubs[x.epub].mtime = x.mtime
    /\ epubs[x.epub].archive.zip
    /\ prev.result = "Ok" /\ x.result = "Ok"

\* C10: of two successive extract_cover calls on an archive that opens and
\* whose path and modification time did not change, the second returns the
\* same path with the same bytes as the first, and it neither opens the
\* archive nor writes the cache file.
C10_SecondCallFromCache ==
    SuccessiveCalls
        => /\ x.path = prev.path
           /\ x.bytes = prev.bytes
           /\ ~x.opened
           /\ ~x.wrote

\* C11: for every archive that opens as a zip, whatever it holds, extract_cover
\* returns Ok(Some(path)) with path a cache file that holds a cover or the
\* placeholder; it never fails because no cover could be found (stated for
\* the runs in which no call into the file system failed).
C11_AlwaysSomeImage ==
    (/\ xpc = "idle" /\ x.name = "extract_cover"
     /\ faultsLeft = MaxCoverFaults
     /\ epubs[x.epub].mtime = x.mtime
     /\ epubs[x.epub].archive.zip)
        => /\ x.result = "Ok"
           /\ x.path # NoCacheFile
           /\ x.bytes \notin {NoFile, EmptyFile}

\* the package manifest as a reader of XML sees it: the opening of the tag
\* that token i belongs to, and the place of an attribute within the tag
\* opened at j (0 when the tag does not have it)
TagOf(xml, i) ==
    CHOOSE j \in 1..i : xml[j][1] = "<" /\ \A k \in (j + 1)..i : xml[k][1] # "<"
AttrOf(xml, j, attr) ==
    IF \E i \in j..Len(xml) : xml[i][1] = attr /\ TagOf(xml, i) = j
    THEN CHOOSE i \in j..Len(xml) : xml[i][1] = attr /\ TagOf(xml, i) = j
    ELSE 0
TagsNamed(xml, name) == {j \in 1..Len(xml) : xml[j] = Tag(name)}
Least(S) == CHOOSE j \in S : \A k \in S : j <= k

\* the href of the item the manifest declares as the cover: the item with
\* properties="cover-image", or else the item whose id a
\* <meta name="cover" content=ID> names; NoPath when it declares none
ManifestCoverHref(xml) ==
    LET Has(j, attr, value) ==
            /\ AttrOf(xml, j, attr) # 0
            /\ xml[AttrOf(xml, j, attr)][2] = value
        items == {j \in TagsNamed(xml, "item") : AttrOf(xml, j, "href") # 0}
        metas == {j \in TagsNamed(xml, "meta") :
                      Has(j, "name", "cover") /\ AttrOf(xml, j, "content") # 0}
        items3 == {j \in items : Has(j, "properties", "cover-image")}
        items2 == {j \in items :
                      \E m \in metas :
                          Has(j, "id", xml[AttrOf(xml, m, "content")][2])}
    IN  IF items3 # {} THEN xml[AttrOf(xml, Least(items3), "href")][2]
        ELSE IF items2 # {} THEN xml[AttrOf(xml, Least(items2), "href")][2]
        ELSE NoPath

\* the entry of the archive that its manifest declares as the cover: its
\* index, 0 when the manifest declares none or the archive does not hold it
DeclaredCoverEntry(a) ==
    LET opf_path == GetOpfPath(a)
        o == IF opf_path = NoPath THEN 0 ELSE ByName(a, opf_path)
        href == IF o = 0 THEN NoPath ELSE ManifestCoverHref(a.entries[o].xml)
    IN IF href = NoPath THEN 0 ELSE ByName(a, Join(Parent(opf_path), href))

\* extract_cover returned Ok after reading the archive that is still at the
\* path
ExtractedNow ==
    /\ xpc = "idle" /\ x.name = "extract_cover"
    /\ x.result = "Ok" /\ x.opened
    /\ epubs[x.epub].mtime = x.mtime

\* C12: for an archive whose manifest declares a cover image, the cache file
\* extract_cover writes holds exactly the bytes of the declared item's href
\* resolved against the directory of the manifest, whatever else the manifest
\* lists and the archive holds.
C12_ManifestCoverExtracted ==
    LET a == epubs[x.epub].archive IN
    (ExtractedNow /\ DeclaredCoverEntry(a) # 0)
        => x.bytes = a.entries[DeclaredCoverEntry(a)].bytes

\* the manifest of the archive declares no cover
NoManifestCover(a) ==
    \/ GetOpfPath(a) = NoPath
    \/ ByName(a, GetOpfPath(a)) = 0
    \/ ManifestCoverHref(a.entries[ByName(a, GetOpfPath(a))].xml) = NoPath

\* the names of the images of the archive that have "cover" in their name
CoverNamed(a) ==
    {a.entries[i].name : i \in {k \in 1..Len(a.entries) :
        IsImageName(a.entries[k].name) /\ ContainsCover(a.entries[k].name)}}
\* the conventional paths that the archive holds
HeldCommonPaths(a) ==
    {CommonPaths[i] : i \in {k \in 1..Len(CommonPaths) : ByName(a, CommonPaths[k]) # 0}}

\* C13 as claimed: with no manifest-declared cover, the cover extract_cover
\* selects has the fewest path segments of all the cover-named images of the
\* archive.
C13_ShallowestWins ==
    LET a == epubs[x.epub].archive IN
    (ExtractedNow /\ NoManifestCover(a) /\ x.cover # NoPath)
        => \A name \in CoverNamed(a) : Len(x.cover) <= Len(name)

\* C13 as amended: with no manifest-declared cover, the selected cover has
\* the fewest path segments of all the cover-named images when the archive
\* holds none of the conventional paths; and a cover.jpg at the root is
\* selected when every conventional path the archive holds is at the root.
C13_ShallowestAmongScanned ==
    LET a == epubs[x.epub].archive IN
    (ExtractedNow /\ NoManifestCover(a) /\ x.cover # NoPath)
        => /\ HeldCommonPaths(a) = {}
                => /\ x.cover \in CoverNamed(a)
                   /\ \A name \in CoverNamed(a) : Len(x.cover) <= Len(name)
           /\ (/\ <<"cover.jpg">> \in HeldCommonPaths(a)
               /\ \A path \in HeldCommonPaths(a) : Len(path) = 1)
                => x.cover = <<"cover.jpg">>

\* a root cover.jpg was selected over a cover.jpg three segments deep, and
\* its bytes are what the call returned
C13_Witness ==
    LET a == epubs[x.epub].archive IN
    /\ ExtractedNow /\ NoManifestCover(a)
    /\ \E name \in CoverNamed(a) : Len(name) = 3 /\ name[3] = "cover.jpg"
    /\ x.cover = <<"cover.jpg">>
    /\ x.bytes = a.entries[ByName(a, <<"cover.jpg">>)].bytes

\* the cache file that the call under way writes once it has created it
WrittenFile ==
    IF x.cover = NoPath THEN PlaceholderPath(x.key) ELSE CachedPath(x.key)

\* C14: no step of an extract_cover call deletes, overwrites or changes the
\* content of a cache entry that exists; a call for an archive whose
\* modification time is in another second than at the call before uses
\* another key.
C14_EntriesNeverTouched ==
    [][/\ xpc # "idle"
            => \A f \in CacheFiles :
                   (cache[f] # NoFile /\ ~(x.wrote /\ f = WrittenFile))
                        => cache'[f] = cache[f]
       /\ (/\ x'.name = "extract_cover" /\ prev'.name = "extract_cover"
           /\ x'.epub = prev'.epub /\ x'.mtime.secs # prev'.mtime.secs)
            => x'.key # prev'.key]_vars

\* C15: a clear_cache that returns Ok has removed every regular file directly
\* under the cache root and nothing else, a subdirectory and what is in it
\* stay; on a directory without regular files it returns Ok unless the
\* directory cannot be read; and the extract_cover that follows a clear_cache
\* that returned Ok finds no cached file and reads the archive.
C15_ClearRemovesFilesOnly ==
    [][/\ (ClearCache /\ x'.result = "Ok")
            => \A f \in CacheEntries :
                   cache'[f] = IF IsFile(cache[f]) THEN NoFile ELSE cache[f]
       /\ (/\ ClearCache /\ faultsLeft' = faultsLeft
           /\ \A f \in CacheEntries : ~IsFile(cache[f]))
            => x'.result = "Ok" /\ cache' = cache
       /\ (/\ xpc' = "idle" /\ x'.name = "extract_cover" /\ x'.result = "Ok"
           /\ prev'.name = "clear_cache" /\ prev'.result = "Ok")
            => x'.opened /\ x'.wrote]_vars

\* a clear_cache that removed files and left the subdirectory, followed by
\* an extract_cover that read the archive again
C15_Witness ==
    /\ xpc = "idle" /\ x.name = "extract_cover" /\ x.result = "Ok"
    /\ x.opened
    /\ prev.name = "clear_cache" /\ prev.result = "Ok" /\ prev.wrote
    /\ cache[SubDir] = Directory
    /\ cache[x.path] = x.bytes

----------------------------------------------------------------------------
(* The extraction from the device database, property by property           *)

\* the Highlights of the books of a map or of a list
HighlightsOf(bs) ==
    UNION {{bs[v].highlights[i] : i \in DOMAIN bs[v].highlights} : v \in DOMAIN bs}
Extracted == dpc = "idle" /\ books.result = "Ok"
NoText(b) == b.Text = Null \/ b.Text = Some("")

\* C16: no Highlight is produced for a bookmark row whose text is NULL or the
\* empty string: no such row is among the rows of the query, every Highlight
\* in the map and in the returned list carries the non-empty text of its
\* bookmark row, and a row with empty text is left out as a row with NULL is.
C16_NoHighlightWithoutText ==
    /\ \A row \in rows : row.Text # Null /\ Value(row.Text) # ""
    /\ \A h \in HighlightsOf(books_map) \cup HighlightsOf(books.list) :
           /\ h.text # ""
           /\ \E b \in bookmarkTable :
                  b.BookmarkID = h.id /\ b.Text = Some(h.text) /\ ~NoText(b)
    /\ \A b \in bookmarkTable :
           NoText(b) => \A h \in HighlightsOf(books_map) \cup HighlightsOf(books.list) :
                            h.id # b.BookmarkID

\* an extraction returned the highlight of one bookmark and none for the
\* bookmark whose text is the empty string
C16_Witness ==
    /\ Extracted
    /\ \E b \in bookmarkTable : b.Text = Some("")
    /\ HighlightsOf(books.list) # {}

\* the metadata fields of a Book and the columns they are filled from
MetaFields ==
    {<<"isbn", "ISBN">>, <<"publisher", "Publisher">>, <<"language", "Language">>,
     <<"date_last_read", "DateLastRead">>}

\* C17: the returned list holds exactly one Book for each volume identifier
\* of a bookmark row with text, and while the rows are merged (up to a
\* failure, which drops the map) a Book stays in the map and a metadata
\* field (isbn, publisher, language, date_last_read) that is non-null is
\* never changed by a later row, whether that row's value is null or not; a field that is null takes the value of
\* the row: the first non-null value wins.
C17_OneBookPerVolume ==
    [][/\ books'.result # "Err"
              => \A v \in DOMAIN books_map :
                     /\ v \in DOMAIN books_map'
                     /\ \A f \in MetaFields :
                            books_map[v][f[1]] # Null
                                => books_map'[v][f[1]] = books_map[v][f[1]]
       /\ \A row \in rows \ rows' :
              row.VolumeID \in DOMAIN books_map'
                  => \A f \in MetaFields :
                         books_map'[row.VolumeID][f[1]] =
                             IF /\ row.VolumeID \in DOMAIN books_map
                                /\ books_map[row.VolumeID][f[1]] # Null
                             THEN books_map[row.VolumeID][f[1]]
                             ELSE row[f[2]]
       /\ Extracted'
              => /\ \A i, j \in DOMAIN books'.list :
                        books'.list[i].content_id = books'.list[j].content_id => i = j
                 /\ {books'.list[i].content_id : i \in DOMAIN books'.list}
                        = {b.VolumeID : b \in {c \in bookmarkTable : ~NoText(c)}}]_vars

\* two rows of one volume with different metadata were merged into one Book:
\* the publisher came from one row and the language from the other
C17_Witness ==
    /\ Extracted
    /\ \E i \in DOMAIN books.list :
           /\ books.list[i].publisher = MetaA.Publisher
           /\ books.list[i].language = MetaB.Language
           /\ books.list[i].isbn # Null
           /\ Len(books.list[i].highlights) >= 2

\* the bookmark row a Highlight was made from (BookmarkID is the key)
BookmarkOf(h) == CHOOSE b \in bookmarkTable : b.BookmarkID = h.id
\* the rows of the content table for an item: its page rows, and the entries
\* of the table of contents, whose id is the item's id and a suffix "-N"
PageRowsOf(item) ==
    {c \in contentTable : c.ContentType = PageType /\ c.ContentID = item}
TocRowsOf(item) ==
    {c \in contentTable :
        /\ c.ContentType = TocType
        /\ \E n \in TocSuffixes : c.ContentID = item \o <<n>>}
Contains(s, sub) ==
    \E i \in 1..(Len(s) - Len(sub) + 1) : SubSeq(s, i, i + Len(sub) - 1) = sub
EndsWith(s, suffix) ==
    /\ Len(s) >= Len(suffix)
    /\ SubSeq(s, Len(s) - Len(suffix) + 1, Len(s)) = suffix
AllHighlights == HighlightsOf(books_map) \cup HighlightsOf(books.list)

\* C18: when the content table holds an entry of the table of contents and a
\* page row for a highlight's item, the highlight's chapter title is the
\* title of such an entry; when it holds only page rows for the item and
\* their title contains "/" or ends in ".xhtml", the chapter title is absent.
C18_TocTitleChosen ==
    \A h \in AllHighlights :
        LET item == BookmarkOf(h).ContentID IN
        /\ (TocRowsOf(item) # {} /\ PageRowsOf(item) # {})
               => h.chapter_title \in {c.Title : c \in TocRowsOf(item)}
        /\ (/\ TocRowsOf(item) = {}
            /\ PageRowsOf(item) # {}
            /\ \A c \in PageRowsOf(item) :
                   \/ Contains(Value(c.Title), <<"/">>)
                   \/ EndsWith(Value(c.Title), <<".", "x", "htm", "l">>))
               => h.chapter_title = Null

StartsWith(s, prefix) == Len(s) >= Len(prefix) /\ SubSeq(s, 1, Len(prefix)) = prefix
\* the rows of the content table at the item's own id
ItemRowsOf(item) == {c \in contentTable : c.ContentID = item}
\* the title of an item-level row if it does not look like a file name
UnlessFileName(title) ==
    IF /\ title # Null
       /\ ~Contains(Value(title), <<"/">>)
       /\ ~EndsWith(Value(title), <<".", "x", "htm", "l">>)
       /\ ~EndsWith(Value(title), <<".", "htm", "l">>)
       /\ ~EndsWith(Value(title), <<".", "htm">>)
    THEN title
    ELSE Null

\* C19: for a highlight whose item has no entry of a table of contents (no
\* row of that type has an id that begins with the item's id), the chapter
\* title is the title of the item-level row if that title is non-null, holds
\* no "/" and does not end in ".xhtml", ".html" or ".htm", and is absent in
\* every other case, also when there is no item-level row.
C19_ItemTitleUnlessFileName ==
    \A h \in AllHighlights :
        LET item == BookmarkOf(h).ContentID IN
        (\A c \in contentTable :
             c.ContentType = TocType => ~StartsWith(c.ContentID, item))
            => h.chapter_title \in
                   IF ItemRowsOf(item) = {} THEN {Null}
                   ELSE {UnlessFileName(c.Title) : c \in ItemRowsOf(item)}

\* C20: an entry of a table of contents gives a highlight its chapter title
\* only if its id is the id of the highlight's item and a suffix "-N": in
\* the rows of the query a title that came from such an entry came from one
\* of the item's own, and every Highlight carries the title of one of the
\* item's own entries or what the item-level row gives without any entry.
C20_OnlyOwnTocEntries ==
    /\ \A row \in rows :
           LET item == (CHOOSE b \in bookmarkTable :
                            b.BookmarkID = row.BookmarkID).ContentID
               c_toc == row.of[3]
           IN  (c_toc # Null /\ Value(c_toc).Title # Null)
                   => Value(c_toc) \in TocRowsOf(item)
    /\ \A h \in AllHighlights :
           LET item == BookmarkOf(h).ContentID IN
           h.chapter_title \in
               {c.Title : c \in TocRowsOf(item)}
                   \cup {ChapterTitle(Null, c) : c \in LeftJoin(ItemRowsOf(item))}

\* the bookmark rows with text whose volume has no row in the content table
Orphans ==
    {b \in bookmarkTable :
        ~NoText(b) /\ \A c \in contentTable : c.ContentID # b.VolumeID}
\* the Book of the returned list made for a bookmark row
BooksOf(b) ==
    {books.list[i] : i \in {j \in DOMAIN books.list :
                                books.list[j].content_id = b.VolumeID}}

\* C21: in a returned extraction every bookmark row with text whose volume
\* has no book-level row has a Book, with the author "Unknown Author" and
\* the title "Unknown Title".
C21_OrphanGetsSentinels ==
    Extracted
        => \A b \in Orphans :
               \E book \in BooksOf(b) :
                   /\ book.author = "Unknown Author"
                   /\ book.title = <<"Unknown Title">>

\* C21 as the code has it: the Book is there with the author "Unknown
\* Author"; its title is the BookTitle of the item-level row of one of the
\* volume's bookmark rows, else that row's Title, and "Unknown Title" only
\* when the item-level row has neither or is missing.
C21_OrphanTitleFallsBack ==
    Extracted
        => \A b \in Orphans :
               \E book \in BooksOf(b) :
                   /\ book.author = "Unknown Author"
                   /\ \E o \in Orphans : \E c \in LeftJoin(ItemRowsOf(o.ContentID)) :
                          /\ o.VolumeID = b.VolumeID
                          /\ book.title =
                                 Value(Coalesce(Col(c, "BookTitle"),
                                       Coalesce(Col(c, "Title"),
                                                Some(<<"Unknown Title">>))))

\* a returned Book of a volume without a book-level row, titled after the
\* page row of its bookmark
C21_Witness ==
    /\ Extracted
    /\ \E b \in Orphans :
           \E book \in BooksOf(b) :
               /\ book.author = "Unknown Author"
               /\ book.title # <<"Unknown Title">>
               /\ ItemRowsOf(b.ContentID) # {}

\* C22: the returned list is sorted by title in ascending byte order: of two
\* adjacent books the later one's title is never before the earlier one's.
C22_SortedByTitle ==
    Extracted
        => \A i \in DOMAIN books.list :
               i + 1 \in DOMAIN books.list
                   => ~Before(books.list[i + 1].title, books.list[i].title)

\* a returned list of two books with different titles
C22_Witness ==
    /\ Extracted
    /\ Len(books.list) = 2
    /\ Before(books.list[1].title, books.list[2].title)

----------------------------------------------------------------------------
(* The cover extractor: the order of discovery and the cache files         *)

\* what parsing the manifest yields: a path, or NoPath when the container
\* names no package document or the document declares no cover
ManifestYields(a) ==
    IF GetOpfPath(a) = NoPath THEN NoPath ELSE ParseOpfForCover(a, GetOpfPath(a))
\* the entries the scan looks at: the images with "cover" in their name
ScanHits(a) ==
    {k \in 1..Len(a.entries) :
        IsImageName(a.entries[k].name) /\ ContainsCover(a.entries[k].name)}

\* C24: the cover a call selects is what parsing the manifest yields if it
\* yields a path; otherwise the first path of the conventional list that the
\* archive holds; otherwise, of the images with "cover" in their name, one
\* with the fewest path segments, and of those the first in the archive;
\* and none if there is no such image.
C24_DiscoveryPriority ==
    LET a == epubs[x.epub].archive IN
    ExtractedNow
        => x.cover =
               IF ManifestYields(a) # NoPath THEN ManifestYields(a)
               ELSE IF HeldCommonPaths(a) # {}
               THEN CommonPaths[Least({k \in 1..Len(CommonPaths) :
                                           ByName(a, CommonPaths[k]) # 0})]
               ELSE IF ScanHits(a) = {} THEN NoPath
               ELSE a.entries[Least({k \in ScanHits(a) :
                                \A j \in ScanHits(a) :
                                    Len(a.entries[k].name) <= Len(a.entries[j].name)})].name

\* the scan chose between two images of the same depth and took the one the
\* archive lists first
C24_Witness ==
    /\ ExtractedNow
    /\ epubs[x.epub].archive = EpubScanOnly
    /\ x.cover = <<"covers", "front.jpg">>
    /\ x.result = "Ok"

\* C27: a cache file that extract_cover returns holds the complete bytes of
\* a cover entry, never an empty or a short file, also when the call follows
\* one that failed while writing the cache file
C27_ReturnedCacheFileComplete ==
    (/\ xpc = "idle" /\ x.name = "extract_cover"
     /\ x.result = "Ok" /\ x.path = CachedPath(x.key))
        => x.bytes # EmptyFile

----------------------------------------------------------------------------
(* The settings manager: what a failed or a raced save leaves on disk      *)

\* C25: a save that returns the error of exhausted attempts leaves at the
\* settings path what was there when it began: the file of before with its
\* content, or no file if there was none.
C25_FailedSaveLeavesFileAsBefore ==
    \A p \in Procs :
        (SaveReturned(p) /\ result[p] = "IoError") => fs.cfg = fs0[p].cfg

\* C28: when the two callers have each returned from a save, and no call
\* into the file system failed on the way, the settings file holds the
\* complete document of one of the two saves
C28_RacedSavesLeaveOneDocument ==
    (/\ \A p \in Procs : SaveReturned(p)
     /\ faultsLeft = MaxConcFaults)
        => \E p \in Procs : fs.cfg = JsonFile(content[p])

----------------------------------------------------------------------------
(* The extraction: one highlight per bookmark row, and all or nothing      *)

\* the places of the highlights in the returned list: book i, highlight j
HighlightPlaces ==
    UNION {{<<i, j>> : j \in DOMAIN books.list[i].highlights} :
               i \in DOMAIN books.list}
HighlightAt(pl) == books.list[pl[1]].highlights[pl[2]]

\* C26: in the result of an extraction the highlight identifiers are unique
\* and there are as many highlights as bookmark rows with non-empty text,
\* whatever content rows relate to the rows' items
C26_OneHighlightPerBookmark ==
    Extracted =>
        /\ \A pl, q \in HighlightPlaces :
               HighlightAt(pl).id = HighlightAt(q).id => pl = q
        /\ Cardinality(HighlightPlaces)
               = Cardinality({b \in bookmarkTable : ~NoText(b)})

\* C30: an extraction in which preparing the query or reading a row failed
\* has returned at that failure, with the error and no list of books, the
\* books grouped so far dropped and no row read after it; an extraction that
\* returns Ok returns a highlight for every bookmark row with text
C30_AllOrNothing ==
    /\ faultsLeft < MaxDbFaults
           => /\ dpc = "idle"
              /\ books = [result |-> "Err", list |-> <<>>]
              /\ books_map = <<>>
    /\ Extracted
           => \A b \in bookmarkTable :
                  ~NoText(b) => \E pl \in HighlightPlaces :
                                    HighlightAt(pl).id = b.BookmarkID

\* the reading of a row failed after other rows had been read and grouped
C30_Witness ==
    /\ dpc = "idle"
    /\ books.result = "Err"
    /\ rows # {}
    /\ rows # SelectRows(bookmarkTable, contentTable)
    /\ \E b \in bookmarkTable : ~NoText(b)

----------------------------------------------------------------------------
(* The device monitor and the import                                       *)

\* the events of a turn of the loop: the calls of emit it added
EmittedNow == SubSeq(emitted', Len(emitted) + 1, Len(emitted'))
\* the turn emitted this one event and nothing else
EmitsOnly(event) == Len(EmittedNow) = 1 /\ EmittedNow[1].event = event

\* C29: a turn of the monitoring loop emits "device-detected" when its scan
\* finds a device and the last known state was no device or a device of
\* another path or serial number, "device-disconnected" when it finds none
\* and a device was known, and nothing when it sees the same device or none
\* again; a failed scan emits nothing and leaves the last known state; two
\* "device-disconnected" events are never emitted in a row.
C29_EventOnChangeOnly ==
    /\ [][pollsLeft' # pollsLeft
            => IF ~scan'.ok
               THEN EmittedNow = <<>> /\ last_device' = last_device
               ELSE LET current == scan'.device IN
                    IF /\ current # Null
                       /\ \/ last_device = Null
                          \/ Value(last_device).path # Value(current).path
                          \/ Value(last_device).serial_number
                                 # Value(current).serial_number
                    THEN EmitsOnly("device-detected") /\ last_device' = current
                    ELSE IF current = Null /\ last_device # Null
                    THEN EmitsOnly("device-disconnected") /\ last_device' = Null
                    ELSE EmittedNow = <<>>]_vars
    /\ [](\A i \in DOMAIN emitted :
              (i + 1 \in DOMAIN emitted /\ emitted[i].event = "device-disconnected")
                  => emitted[i + 1].event = "device-detected")

\* a device was detected, replaced by one of the same path and another
\* serial number, which was detected in its turn, and taken out
C29_Witness ==
    /\ Len(emitted) = 3
    /\ emitted[1].event = "device-detected"
    /\ emitted[2].event = "device-detected"
    /\ Value(emitted[1].device).path = Value(emitted[2].device).path
    /\ emitted[3].event = "device-disconnected"
    /\ pollsLeft = 0

\* the book file of book i on the device, None when the book has no
\* file_path or nothing lies at it
BookFile(i) ==
    IF ibooks[i].file_path = Null THEN Null
    ELSE deviceFiles[Value(ibooks[i].file_path)[1]]

\* C23: once the books are extracted, import_highlights returns Ok with
\* every extracted book, whatever the cover lookups come to: each book was
\* looked up, a book whose lookup failed has no cover path, and a book whose
\* lookup succeeded has the path extract_cover returns for its file.
C23_FailedLookupDoesNotAbort ==
    (ipc = "idle" /\ inext > 0)
        => /\ iresult = "Ok"
           /\ Len(ibooks) = Len(Value(koboDb))
           /\ Len(lookups) = Len(ibooks)
           /\ \A i \in DOMAIN ibooks :
                  /\ ibooks[i].content_id = Value(koboDb)[i]
                  /\ lookups[i] = "none" <=> BookFile(i) = Null
                  /\ lookups[i] # "Ok" => ibooks[i].cover_path = Null
                  /\ lookups[i] = "Ok"
                         => /\ ibooks[i].cover_path # Null
                            /\ ibooks[i].cover_path =
                                   ExtractCoverResult(Value(ibooks[i].file_path)[1],
                                                      Value(BookFile(i)))

\* the lookup of the first book failed on a file that is no zip, the cover
\* of the second was resolved, and the import returned both
C23_Witness ==
    /\ ipc = "idle"
    /\ iresult = "Ok"
    /\ lookups = <<"Err", "Ok">>
    /\ BookFile(1) = Some(NotAZip)
    /\ ibooks[1].cover_path = Null
    /\ ibooks[2].cover_path # Null

============================================================================
